---- MODULE Spec2Model ----
(***************************************************************************)
(* Model of backend/services/image_comparison.py (ImageComparisonService). *)
(*                                                                         *)
(* Number representation (the code computes in IEEE doubles; the model    *)
(* keeps the same quantities as scaled integers):                          *)
(*   difference_percentage, ssim_score, perceptual_score, mse_score       *)
(*        in 1/1000 of a score point ("milli-points"), 100.0 = 100000     *)
(*   ssim, overall_perceptual and the four sub-metrics in 1/1000          *)
(*   mse in 1/1000000 (so that mse * 1000, in milli-points, is the same   *)
(*        integer)                                                         *)
(*   difference_score in 1/100000 of a point, 100.0 = 10000000            *)
(***************************************************************************)
EXTENDS Integers, Sequences, FiniteSets, TLC

VARIABLES
    pc,                 \* position of the running call: "idle", a step of compare_images, "done", "raised"
    image1_data,        \* compare_images argument: the first byte buffer
    image2_data,        \* compare_images argument: the second byte buffer
    sensitivity,        \* compare_images argument
    ignore_regions,     \* compare_images argument
    img1,               \* local img1 of compare_images (a pixel array, or NoImage)
    img2,               \* local img2 of compare_images
    diff_result,        \* local diff_result
    perceptual_result,  \* local perceptual_result
    difference_regions, \* local difference_regions
    result,             \* value returned by compare_images (NoResult until it returns)
    error,              \* message of the exception compare_images raised ("" if none)
    trace,              \* the steps the running compare_images call has executed, in order
    scoreCur,           \* the latest direct call of calculate_difference_score: arguments and result
    scorePrev,          \* the direct call before it
    resizeCall,         \* the latest direct call of resize_images_to_match: arguments and result
    pixelCall,          \* the latest direct call of calculate_pixel_differences: arguments and outcome
    faults,             \* the library calls that raise during the running compare_images call
    thresholdCalls,     \* the latest evaluations (at most two) of the sensitivity-to-threshold lines
    maskCall,           \* the latest direct call of apply_ignore_mask: arguments and result
    regionCall,         \* the latest direct call of extract_difference_regions: arguments and result
    perceptualCall,     \* the latest direct call of calculate_perceptual_similarity: arguments and result
    contourCalls,       \* the latest direct calls (at most two) of the contour stage of the region extractor
    boundCall,          \* the latest direct call of preprocess_image on a decodable image: its size and the shape returned
    comparisons,        \* the compare_images calls running at the same time on one service instance, by caller
    sensitivityCalls,   \* the latest direct calls (at most two) of calculate_pixel_differences on one pair of images
    changeCall,         \* a direct call of _analyze_change_types
    table,              \* the committed rows of comparison_results and the ids issued so far
    sessions            \* the database sessions opened through get_session

vars == <<pc, image1_data, image2_data, sensitivity, ignore_regions, img1, img2,
          diff_result, perceptual_result, difference_regions, result, error, trace,
          scoreCur, scorePrev, resizeCall, pixelCall,
          faults, thresholdCalls, maskCall, regionCall, perceptualCall,
          contourCalls,
          boundCall,
          comparisons,
          sensitivityCalls,
          changeCall,
          table,
          sessions>>

compareVars == <<pc, image1_data, image2_data, sensitivity, ignore_regions, img1, img2,
                 diff_result, perceptual_result, difference_regions, result, error, trace,
                 faults>>

----------------------------------------------------------------------------
(* Arithmetic helpers *)

Min(a, b) == IF a < b THEN a ELSE b

Max(a, b) == IF a > b THEN a ELSE b

Abs(a) == IF a < 0 THEN -a ELSE a

\* Python int(): truncation toward zero of the quotient a / b (b > 0)
TruncDiv(a, b) == IF a >= 0 THEN a \div b ELSE -((-a) \div b)

SetMin(S) == CHOOSE x \in S : \A y \in S : x <= y

SetMax(S) == CHOOSE x \in S : \A y \in S : x >= y

RECURSIVE SumTo(_, _)
\* f[0] + ... + f[n], for a function f on 0..n
SumTo(f, n) == IF n < 0 THEN 0 ELSE f[n] + SumTo(f, n - 1)

----------------------------------------------------------------------------
(* Score Fuser: calculate_difference_score *)

\* perceptual_result argument: None, {} (empty dict), a dict without the key
\* 'overall_perceptual', or a dict carrying it
PercNone == [kind |-> "none", overall |-> 0]

PercEmpty == [kind |-> "empty", overall |-> 0]

PercNoKey == [kind |-> "nokey", overall |-> 0]

Perc(v) == [kind |-> "dict", overall |-> v]

\* Python truthiness of perceptual_result: None and {} are falsy
Truthy(pr) == pr.kind \in {"nokey", "dict"}

\* perceptual_result.get('overall_perceptual', 0)
GetOverall(pr) == IF pr.kind = "dict" THEN pr.overall ELSE 0

\* (1 - ssim) * 100 with the inversion dropped
InvertToScoreMut(sim) == sim * 100

\* (1 - x) * 100: a similarity in 1/1000 to a difference score in milli-points
InvertToScore(sim) == (1000 - sim) * 100

\* min(mse * 1000, 100)
MseScore(mse) == Min(mse, 100000)

\* the score 100.0
FullScore == 10000000

\* the final clamp dropped
ClampScoreMut(s) == s

\* min(max(final_score, 0), 100)
ClampScore(s) == Min(Max(s, 0), FullScore)

\* the fallback weights used in both branches
WeightedSumMut(pixel_diff_score, ssim_score, perceptual_score, mse_score, withPerc) ==
    pixel_diff_score * 60 + ssim_score * 30 + mse_score * 10

\* the weighted combination of lines 641-654
WeightedSum(pixel_diff_score, ssim_score, perceptual_score, mse_score, withPerc) ==
    IF withPerc
    THEN pixel_diff_score * 40 + ssim_score * 25 + perceptual_score * 25 + mse_score * 10
    ELSE pixel_diff_score * 60 + ssim_score * 30 + mse_score * 10

\* comparison_result is a record [ok, difference_percentage, ssim, mse]; ok = FALSE
\* stands for a call in which a statement of the try block raises (on the lookups of
\* lines 630-632: a missing key or a non-numeric value), which the except clause
\* turns into 0.0
calculate_difference_score(comparison_result, pr) ==
    IF ~comparison_result.ok
    THEN 0
    ELSE LET pixel_diff_score == comparison_result.difference_percentage
             ssim_score == InvertToScore(comparison_result.ssim)
             mse_score == MseScore(comparison_result.mse)
             perceptual_score == IF Truthy(pr) THEN InvertToScore(GetOverall(pr)) ELSE 0
             final_score == WeightedSum(pixel_diff_score, ssim_score, perceptual_score,
                                        mse_score, Truthy(pr))
         IN  ClampScore(final_score)

----------------------------------------------------------------------------
(* IEEE 754 double arithmetic on the magnitudes preprocess_image computes with.  *)
(* A natural number is a sequence of bits, most significant first, without       *)
(* leading zeros (<< >> is 0); a double is a 53-bit natural times a power of 2.  *)
(* Division and multiplication work on base-256 digits, most significant first.  *)

\* the bits without leading zeros
Strip(bits) ==
    LET ones == {i \in 1 .. Len(bits) : bits[i] = 1}
    IN  IF ones = {} THEN << >> ELSE SubSeq(bits, SetMin(ones), Len(bits))

\* the eight bits of each digit
BitsOfDigits(digits) ==
    [i \in 1 .. 8 * Len(digits) |->
        (digits[((i - 1) \div 8) + 1] \div <<128, 64, 32, 16, 8, 4, 2, 1>>[((i - 1) % 8) + 1]) % 2]

\* the base-256 digits of a bit sequence
DigitsOfBits(bits) ==
    LET n == (Len(bits) + 7) \div 8
        padded == [i \in 1 .. 8 * n - Len(bits) |-> 0] \o bits
    IN  [d \in 1 .. n |->
            128 * padded[8 * d - 7] + 64 * padded[8 * d - 6] + 32 * padded[8 * d - 5]
            + 16 * padded[8 * d - 4] + 8 * padded[8 * d - 3] + 4 * padded[8 * d - 2]
            + 2 * padded[8 * d - 1] + padded[8 * d]]

RECURSIVE ValueOf(_)
\* the natural number of a short bit sequence
ValueOf(bits) ==
    IF bits = << >> THEN 0
    ELSE 2 * ValueOf(SubSeq(bits, 1, Len(bits) - 1)) + bits[Len(bits)]

\* the bits of the number plus one
Increment(bits) ==
    LET zeros == {i \in 1 .. Len(bits) : bits[i] = 0}
    IN  IF zeros = {} THEN <<1>> \o [i \in 1 .. Len(bits) |-> 0]
        ELSE [i \in 1 .. Len(bits) |->
                 IF i < SetMax(zeros) THEN bits[i] ELSE IF i = SetMax(zeros) THEN 1 ELSE 0]

RECURSIVE LongDivision(_, _, _)
\* schoolbook division of the digits by the divisor, the running remainder being
\* rem: the quotient digits followed by the final remainder
LongDivision(digits, divisor, rem) ==
    IF digits = << >> THEN <<rem>>
    ELSE LET r == 256 * rem + Head(digits)
         IN  <<r \div divisor>> \o LongDivision(Tail(digits), divisor, r % divisor)

RECURSIVE TimesSmall(_, _, _)
\* the digits of (number * factor + carry)
TimesSmall(digits, factor, carry) ==
    IF digits = << >>
    THEN IF carry = 0 THEN << >> ELSE Append(TimesSmall(<< >>, factor, carry \div 256), carry % 256)
    ELSE LET t == carry + factor * digits[Len(digits)]
         IN  Append(TimesSmall(SubSeq(digits, 1, Len(digits) - 1), factor, t \div 256), t % 256)

\* the precision of a double: 53 significant bits
mantissa_bits == 53

\* the base-256 digits a quotient is developed to behind the point before it is
\* rounded
quotient_digits == 10

\* Rounding to the nearest double, ties to even. The number is bits * 2^exp, with
\* something non-zero below its last bit when inexact; the result is the record
\* [bits, exp] of the double.
RoundToDouble(bits, exp, inexact) ==
    LET n == Len(bits)
    IN  IF n <= mantissa_bits THEN [bits |-> bits, exp |-> exp]
        ELSE LET kept == SubSeq(bits, 1, mantissa_bits)
                 guard == bits[mantissa_bits + 1]
                 sticky == inexact \/ \E i \in mantissa_bits + 2 .. n : bits[i] = 1
                 up == guard = 1 /\ (sticky \/ kept[mantissa_bits] = 1)
             IN  [bits |-> IF up THEN Increment(kept) ELSE kept,
                  exp |-> exp + (n - mantissa_bits)]

\* a / b in double arithmetic for whole numbers 0 < a < b < 2^22
FloatDivide(a, b) ==
    LET development == LongDivision(<<a>> \o [i \in 1 .. quotient_digits |-> 0], b, 0)
        quotient == SubSeq(development, 1, Len(development) - 1)
        remainder == development[Len(development)]
    IN  RoundToDouble(Strip(BitsOfDigits(quotient)), -8 * quotient_digits, remainder # 0)

\* n * x in double arithmetic for a whole number 0 < n < 2^22 and a double x
FloatTimes(n, x) ==
    RoundToDouble(Strip(BitsOfDigits(TimesSmall(DigitsOfBits(x.bits), n, 0))), x.exp, FALSE)

\* int(x) for a double x >= 0 below 2^31
FloatToInt(x) ==
    IF x.exp >= 0
    THEN ValueOf(x.bits \o [i \in 1 .. x.exp |-> 0])
    ELSE ValueOf(SubSeq(x.bits, 1, Len(x.bits) + x.exp))

----------------------------------------------------------------------------
(* Byte buffers and decoded images *)

Red == <<255, 0, 0>>

Blue == <<0, 0, 255>>

Black == <<0, 0, 0>>

\* A byte buffer is described by what PIL makes of it:
\*   kind "garbage"   - not a raster file: Image.open raises
\*   kind "truncated" - a file whose header parses and whose verify() passes (verify
\*                      does not decode the pixel data of, for example, a JPEG) but
\*                      whose pixel data cannot be loaded
\*   kind "image"     - a complete file
\* and, for the decodable ones, by its size and its picture: a fill colour and a
\* rectangle (inclusive corners box = <<x0, y0, x1, y1>>) drawn in a second colour,
\* as the fixtures of test_backend.py draw them.
Garbage == [kind |-> "garbage", h |-> 0, w |-> 0, fill |-> Black, box |-> <<0, 0, 0, 0>>, ink |-> Black]

Truncated(h, w) == [kind |-> "truncated", h |-> h, w |-> w, fill |-> Red, box |-> <<0, 0, 0, 0>>, ink |-> Red]

Solid(c, h, w) == [kind |-> "image", h |-> h, w |-> w, fill |-> c, box |-> <<0, 0, 0, 0>>, ink |-> c]

\* the partial_diff fixture scaled to the side n: a red image with a blue rectangle
\* from (n/4, n/4) to (3n/4, 3n/4), corners included
PartialDiff(n) ==
    [kind |-> "image", h |-> n, w |-> n, fill |-> Red,
     box |-> <<n \div 4, n \div 4, (3 * n) \div 4, (3 * n) \div 4>>, ink |-> Blue]

NoImage == [h |-> 0, w |-> 0, px |-> << >>]

\* pixel positions <<row, column>> of an h x w array
Pos(h, w) == (0 .. h - 1) \X (0 .. w - 1)

InBox(box, r, c) == box[1] <= c /\ c <= box[3] /\ box[2] <= r /\ r <= box[4]

\* validation accepting every buffer
validate_image_mut(data) == TRUE

\* Image.open(...) followed by image.verify(): True unless either raises
validate_image(data) == data.kind \in {"truncated", "image"}

max_dimension == 2048

\* lines 61-65: ratio = max_dimension / max(width, height), a double; the new size
\* is (int(width * ratio), int(height * ratio)) when the longer side exceeds the
\* maximum
BoundedSize(width, height) ==
    IF Max(width, height) > max_dimension
    THEN LET ratio == FloatDivide(max_dimension, Max(width, height))
             new_width == FloatToInt(FloatTimes(width, ratio))
             new_height == FloatToInt(FloatTimes(height, ratio))
         IN  <<new_width, new_height>>
    ELSE <<width, height>>

\* Resampling to th x tw. The interpolation kernel (Lanczos) is not modelled: each
\* target pixel takes the source pixel under its centre. The target shape is exact.
Resample(img, th, tw) ==
    [h |-> th, w |-> tw,
     px |-> [p \in Pos(th, tw) |->
                img.px[<<((2 * p[1] + 1) * img.h) \div (2 * th),
                         ((2 * p[2] + 1) * img.w) \div (2 * tw)>>]]]

\* whether preprocess_image raises ValueError("Failed to preprocess image: ...")
PreprocessRaises(data) == data.kind # "image"

\* the array preprocess_image returns for a loadable buffer
preprocess_image(data) ==
    LET decoded == [h |-> data.h, w |-> data.w,
                    px |-> [p \in Pos(data.h, data.w) |->
                               IF data.ink # data.fill /\ InBox(data.box, p[1], p[2])
                               THEN data.ink ELSE data.fill]]
        size == BoundedSize(data.w, data.h)
    IN  IF size = <<data.w, data.h>> THEN decoded ELSE Resample(decoded, size[2], size[1])

\* resize_images_to_match returning its arguments untouched
resize_images_to_match_mut(a, b) == <<a, b>>

\* resize_images_to_match with width and height exchanged in the target
resize_images_to_match_swap(a, b) ==
    IF <<a.h, a.w>> = <<b.h, b.w>>
    THEN <<a, b>>
    ELSE <<Resample(a, Min(a.w, b.w), Min(a.h, b.h)), Resample(b, Min(a.w, b.w), Min(a.h, b.h))>>

\* lines 78-93
resize_images_to_match(a, b) ==
    IF <<a.h, a.w>> = <<b.h, b.w>>
    THEN <<a, b>>
    ELSE LET target_height == Min(a.h, b.h)
             target_width == Min(a.w, b.w)
         IN  <<Resample(a, target_height, target_width), Resample(b, target_height, target_width)>>

----------------------------------------------------------------------------
(* Pixel-Difference Analyzer: calculate_pixel_differences *)

\* line 539 without the clamp of line 540
ThresholdOfMut(s) == TruncDiv(25500 - 254 * s, 100)

\* lines 539-540: int(255 - (sensitivity / 100.0) * 254), then max(1, min(., 254));
\* the sensitivity is a whole number of percent
ThresholdOf(s) == Max(1, Min(TruncDiv(25500 - 254 * s, 100), 254))

\* lines 475-476 of _extract_changed_objects: the same two statements, written out
\* a second time in the code
ChangedObjectsThreshold(s) ==
    LET threshold == TruncDiv(25500 - 254 * s, 100)
    IN  Max(1, Min(threshold, 254))

\* cv2.cvtColor(..., COLOR_RGB2GRAY) on 8-bit data: the fixed-point form of
\* 0.299 R + 0.587 G + 0.114 B, rounded
Gray(c) == (c[1] * 9798 + c[2] * 19235 + c[3] * 3735 + 16384) \div 32768

\* np.abs(img1.astype(float) - img2.astype(float)) at one pixel
AbsDiff(c1, c2) == <<Abs(c1[1] - c2[1]), Abs(c1[2] - c2[2]), Abs(c1[3] - c2[3])>>

\* cv2.threshold with THRESH_BINARY_INV: the positions at or below the threshold
BinaryMaskMut(a, b, threshold) ==
    {p \in Pos(a.h, a.w) : Gray(AbsDiff(a.px[p], b.px[p])) <= threshold}

\* cv2.threshold(gray_diff, threshold, 255, THRESH_BINARY): the positions whose
\* grey difference is greater than the threshold (the pixels set to 255)
BinaryMask(a, b, threshold) ==
    {p \in Pos(a.h, a.w) : Gray(AbsDiff(a.px[p], b.px[p])) > threshold}

\* np.mean((img1_float - img2_float) ** 2) in 1/1000000, to a precision of 1/10000
MeanSquaredError(a, b) ==
    LET n == a.h * a.w
        cell == [k \in 0 .. n - 1 |->
                    LET d == AbsDiff(a.px[<<k \div a.w, k % a.w>>], b.px[<<k \div a.w, k % a.w>>])
                    IN  d[1] * d[1] + d[2] * d[2] + d[3] * d[3]]
        avg100 == (SumTo(cell, n - 1) * 100) \div (3 * n)
    IN  ((avg100 * 100) \div 65025) * 100

\* the default win_size of skimage's structural_similarity
win_size == 7

\* a / b in 1/1000 for b > 0 and |a| <= b, within 32-bit arithmetic
Ratio(a, b) ==
    IF Abs(a) < 2000000
    THEN TruncDiv(a * 1000, b)
    ELSE TruncDiv(a, b \div 1000)

\* SSIM of one win_size x win_size window with top-left corner (i, j) in channel ch,
\* in 1/1000: ((2 ux uy + C1)(2 vxy + C2)) / ((ux^2 + uy^2 + C1)(vx + vy + C2)) with
\* data_range 1.0, C1 = 0.01^2, C2 = 0.03^2 and the sample covariance (NP / (NP - 1)).
\* With NP = 49 and 8-bit samples the sums are scaled by (49 * 255)^2 in the first
\* factor and by 48 * 49 * 255^2 in the second.
WindowSSIM(a, b, i, j, ch) ==
    LET np == win_size * win_size
        xs == [k \in 0 .. np - 1 |-> a.px[<<i + (k \div win_size), j + (k % win_size)>>][ch]]
        ys == [k \in 0 .. np - 1 |-> b.px[<<i + (k \div win_size), j + (k % win_size)>>][ch]]
        sx == SumTo(xs, np - 1)
        sy == SumTo(ys, np - 1)
        sxx == SumTo([k \in 0 .. np - 1 |-> xs[k] * xs[k]], np - 1)
        syy == SumTo([k \in 0 .. np - 1 |-> ys[k] * ys[k]], np - 1)
        sxy == SumTo([k \in 0 .. np - 1 |-> xs[k] * ys[k]], np - 1)
        c1 == 15613
        c2 == 137645
        vx == np * sxx - sx * sx
        vy == np * syy - sy * sy
        vxy == np * sxy - sx * sy
        lum == Ratio(2 * sx * sy + c1, sx * sx + sy * sy + c1)
        con == Ratio(2 * vxy + c2, vx + vy + c2)
    IN  TruncDiv(lum * con, 1000)

\* whether structural_similarity raises ValueError("win_size exceeds image extent")
SsimRaises(a, b) == a.h < win_size \/ a.w < win_size

\* mean SSIM over the windows that lie inside the image and over the three channels
StructuralSimilarity(a, b) ==
    LET rows == a.h - win_size + 1
        cols == a.w - win_size + 1
        n == rows * cols * 3
        cell == [k \in 0 .. n - 1 |->
                    WindowSSIM(a, b, (k \div 3) \div cols, (k \div 3) % cols, (k % 3) + 1)]
    IN  TruncDiv(SumTo(cell, n - 1), n)

NoDiff ==
    [raised |-> FALSE, message |-> "", mse |-> 0, ssim |-> 0, difference_percentage |-> 0,
     changed_pixels |-> 0, total_pixels |-> 0, heatmap |-> "", overlay |-> "",
     binary_mask |-> {}, h |-> 0, w |-> 0]

\* the library calls of calculate_pixel_differences that can raise, by stage:
\* np.mean (1), structural_similarity (2), the difference, cvtColor and
\* cv2.threshold (3-4); and those of _create_heatmap (6) and _create_overlay (7)
MetricFaults == {"mse", "ssim", "mask"}

VisualizationFaults == {"heatmap", "overlay"}

\* np.sum(binary_mask), which adds up the 255s of the mask
ChangedPixelsMut(binary_mask) == 255 * Cardinality(binary_mask)

\* line 546: np.sum(binary_mask > 0)
ChangedPixels(binary_mask) == Cardinality(binary_mask)

\* lines 573-591: the encoded PNG, or "" when anything in the function raises
create_heatmap(flt) == IF "heatmap" \in flt THEN "" ELSE "png"

\* lines 595-617: the encoded PNG, or "" when anything in the function raises
create_overlay(flt) == IF "overlay" \in flt THEN "" ELSE "png"

\* the message of the first exception raised in stages 1 to 5, in the order of the
\* statements ("" when none is raised)
PixelError(a, b, flt) ==
    IF "mse" \in flt THEN "mse failed"
    ELSE IF SsimRaises(a, b) THEN "win_size exceeds image extent"
    ELSE IF "ssim" \in flt THEN "ssim failed"
    ELSE IF "mask" \in flt THEN "mask failed"
    ELSE ""

\* calculate_pixel_differences with the handlers of _create_heatmap and
\* _create_overlay re-raising: a failure of a visualization leaves the function too
calculate_pixel_differences_strict(a0, b0, s, flt) ==
    LET pair == resize_images_to_match(a0, b0)
        a == pair[1]
        b == pair[2]
        message == IF PixelError(a, b, flt) # "" THEN PixelError(a, b, flt)
                   ELSE IF "heatmap" \in flt THEN "heatmap failed"
                   ELSE IF "overlay" \in flt THEN "overlay failed"
                   ELSE ""
    IN  IF message # ""
        THEN [NoDiff EXCEPT !.raised = TRUE, !.message = message]
        ELSE LET binary_mask == BinaryMask(a, b, ThresholdOf(s))
             IN  [raised |-> FALSE, message |-> "",
                  mse |-> MeanSquaredError(a, b),
                  ssim |-> StructuralSimilarity(a, b),
                  difference_percentage |-> (ChangedPixels(binary_mask) * 100000) \div (a.h * a.w),
                  changed_pixels |-> ChangedPixels(binary_mask),
                  total_pixels |-> a.h * a.w,
                  heatmap |-> "png",
                  overlay |-> "png",
                  binary_mask |-> binary_mask,
                  h |-> a.h, w |-> a.w]

\* The outcome of calculate_pixel_differences while the library calls in flt raise:
\* raised = TRUE when an exception leaves the function (line 569 re-raises it), else
\* the returned dict.
calculate_pixel_differences(a0, b0, s, flt) ==
    LET pair == resize_images_to_match(a0, b0)
        a == pair[1]
        b == pair[2]
    IN  IF PixelError(a, b, flt) # ""
        THEN [NoDiff EXCEPT !.raised = TRUE, !.message = PixelError(a, b, flt)]
        ELSE LET threshold == ThresholdOf(s)
                 binary_mask == BinaryMask(a, b, threshold)
                 total_pixels == a.h * a.w
                 changed_pixels == ChangedPixels(binary_mask)
             IN  [raised |-> FALSE, message |-> "",
                  mse |-> MeanSquaredError(a, b),
                  ssim |-> StructuralSimilarity(a, b),
                  difference_percentage |-> (changed_pixels * 100000) \div total_pixels,
                  changed_pixels |-> changed_pixels,
                  total_pixels |-> total_pixels,
                  heatmap |-> create_heatmap(flt),
                  overlay |-> create_overlay(flt),
                  binary_mask |-> binary_mask,
                  h |-> a.h, w |-> a.w]

----------------------------------------------------------------------------
(* Ignore-Mask Applier: apply_ignore_mask *)

\* An ignore region: type is the 'type' tag; x, y, width, height are the rectangle's
\* entries; path is the freeform point list (<<x, y>> pairs); ok = FALSE marks a
\* region whose coordinate entries int() cannot convert.
Rect(x, y, width, height) ==
    [type |-> "rectangle", x |-> x, y |-> y, width |-> width, height |-> height,
     path |-> << >>, ok |-> TRUE]

Freeform(path) ==
    [type |-> "freeform", x |-> 0, y |-> 0, width |-> 0, height |-> 0, path |-> path, ok |-> TRUE]

Clamp(v, lo, hi) == Max(lo, Min(v, hi))

\* lines 425-428: the rectangle's entries after the clamping
ClampedRect(region, img_height, img_width) ==
    LET x == Clamp(region.x, 0, img_width - 1)
        y == Clamp(region.y, 0, img_height - 1)
    IN  [x |-> x, y |-> y,
         width |-> Max(0, Min(region.width, img_width - x)),
         height |-> Max(0, Min(region.height, img_height - y))]

\* lines 419-434: the positions draw.rectangle([(x, y), (x + width, y + height)])
\* paints after the clamping; PIL includes both corners and clips to the image
RectangleArea(region, img_height, img_width) ==
    LET r == ClampedRect(region, img_height, img_width)
    IN  {p \in Pos(img_height, img_width) :
            r.x <= p[2] /\ p[2] <= r.x + r.width /\ r.y <= p[1] /\ p[1] <= r.y + r.height}

\* whether the point (px, py) lies on the segment from a to b
OnSegment(px, py, a, b) ==
    /\ (b[1] - a[1]) * (py - a[2]) = (b[2] - a[2]) * (px - a[1])
    /\ Min(a[1], b[1]) <= px /\ px <= Max(a[1], b[1])
    /\ Min(a[2], b[2]) <= py /\ py <= Max(a[2], b[2])

\* whether the ray from (px, py) towards +x crosses the edge from a to b
Crosses(px, py, a, b) ==
    /\ (a[2] > py) # (b[2] > py)
    /\ IF b[2] > a[2]
       THEN (px - a[1]) * (b[2] - a[2]) < (py - a[2]) * (b[1] - a[1])
       ELSE (px - a[1]) * (b[2] - a[2]) > (py - a[2]) * (b[1] - a[1])

\* lines 440-450: the positions draw.polygon paints: the outline and the interior of
\* the polygon through the clamped points (none when there are fewer than 3 points)
FreeformArea(region, img_height, img_width) ==
    LET n == Len(region.path)
        pt(k) == <<Clamp(region.path[k][1], 0, img_width - 1),
                   Clamp(region.path[k][2], 0, img_height - 1)>>
        nxt(k) == pt((k % n) + 1)
    IN  IF n < 3 THEN {}
        ELSE {p \in Pos(img_height, img_width) :
                \/ \E k \in 1 .. n : OnSegment(p[2], p[1], pt(k), nxt(k))
                \/ Cardinality({k \in 1 .. n : Crosses(p[2], p[1], pt(k), nxt(k))}) % 2 = 1}

\* the dispatch with a final else instead of the elif of line 438: every region
\* that is not freeform is drawn as a rectangle
RegionAreaMut(region, img_height, img_width) ==
    IF region.type = "freeform" THEN FreeformArea(region, img_height, img_width)
    ELSE RectangleArea(region, img_height, img_width)

\* the positions one region blackens; a region with another tag is skipped
RegionArea(region, img_height, img_width) ==
    IF region.type = "rectangle" THEN RectangleArea(region, img_height, img_width)
    ELSE IF region.type = "freeform" THEN FreeformArea(region, img_height, img_width)
    ELSE {}

\* whether processing the region raises: the int() conversions of a rectangle, and
\* of a freeform region with at least 3 points, fail on unconvertible entries
RegionRaises(region) ==
    /\ ~region.ok
    /\ \/ region.type = "rectangle"
       \/ region.type = "freeform" /\ Len(region.path) >= 3

\* the except clause returning masked_image: the regions before the first one that
\* raises stay painted
apply_ignore_mask_partial(image, regions) ==
    LET bad == {k \in 1 .. Len(regions) : RegionRaises(regions[k])}
        n == IF bad = {} THEN Len(regions) ELSE SetMin(bad) - 1
        area == UNION {RegionArea(regions[k], image.h, image.w) : k \in 1 .. n}
    IN  [image EXCEPT !.px = [p \in Pos(image.h, image.w) |->
                                 IF p \in area THEN Black ELSE image.px[p]]]

\* lines 403-459: a copy with every region painted black, or, when a region raises,
\* the image passed in
apply_ignore_mask(image, regions) ==
    IF \E k \in 1 .. Len(regions) : RegionRaises(regions[k])
    THEN image
    ELSE LET area == UNION {RegionArea(regions[k], image.h, image.w) : k \in 1 .. Len(regions)}
         IN  [image EXCEPT !.px = [p \in Pos(image.h, image.w) |->
                                      IF p \in area THEN Black ELSE image.px[p]]]

----------------------------------------------------------------------------
(* Perceptual-Similarity Analyzer: calculate_perceptual_similarity *)

\* The four sub-metrics (texture, colour, edge, perceptual hash) in 1/1000. Their
\* numeric kernels (LBP histogram, histogram correlation, Canny, DCT) are not
\* modelled: on identical arrays each of them is 1.0, on different arrays the
\* model takes any of these value tuples.
SubMetricTuples == {<<1000, 1000, 1000, 1000>>, <<900, 0, 1000, 500>>, <<0, 0, 0, 0>>}

SubMetrics(a, b) == IF a.px = b.px THEN {<<1000, 1000, 1000, 1000>>} ELSE SubMetricTuples

NoPerceptual ==
    [texture_similarity |-> 0, color_similarity |-> 0, edge_similarity |-> 0,
     phash_similarity |-> 0, overall_perceptual |-> 0]

\* the library calls in the body of calculate_perceptual_similarity itself:
\* rgb2gray (lines 104-105) and the texture computation (lines 108-121)
PerceptualBodyFaults == {"rgb2gray", "texture"}

\* the library calls inside _calculate_color_similarity, _calculate_edge_similarity
\* and _calculate_phash_similarity, each of which has its own handler
SubMetricFaults == {"color", "edge", "phash"}

\* calculate_perceptual_similarity with the texture computation in a helper of its
\* own that returns 0.0 on a failure, like the other three
calculate_perceptual_similarity_isolated(m, flt) ==
    IF "rgb2gray" \in flt
    THEN NoPerceptual
    ELSE LET reported == [i \in 1 .. 4 |->
                             IF <<"texture", "color", "edge", "phash">>[i] \in flt THEN 0 ELSE m[i]]
         IN  [texture_similarity |-> reported[1],
              color_similarity |-> reported[2],
              edge_similarity |-> reported[3],
              phash_similarity |-> reported[4],
              overall_perceptual |-> (reported[1] + reported[2] + reported[3] + reported[4]) \div 4]

\* lines 102-148, for the sub-metric values m the kernels compute and the library
\* calls flt that raise: a helper that fails returns 0.0 (lines 168, 190, 217); an
\* exception in the body itself reaches the handler of line 140
calculate_perceptual_similarity(m, flt) ==
    IF flt \cap PerceptualBodyFaults # {}
    THEN NoPerceptual
    ELSE LET texture_similarity == m[1]
             color_similarity == IF "color" \in flt THEN 0 ELSE m[2]
             edge_similarity == IF "edge" \in flt THEN 0 ELSE m[3]
             phash_similarity == IF "phash" \in flt THEN 0 ELSE m[4]
         IN  [texture_similarity |-> texture_similarity,
              color_similarity |-> color_similarity,
              edge_similarity |-> edge_similarity,
              phash_similarity |-> phash_similarity,
              overall_perceptual |-> (texture_similarity + color_similarity
                                      + edge_similarity + phash_similarity) \div 4]

----------------------------------------------------------------------------
(* Region Extractor: extract_difference_regions *)

\* the positions at which the two arrays differ (the non-zero pixels of
\* ImageChops.difference)
DiffPositions(a, b) == {p \in Pos(a.h, a.w) : a.px[p] # b.px[p]}

\* diff_image.getbbox(): <<left, upper, right, lower>>, right and lower exclusive;
\* << >> stands for None
BBox(D) ==
    IF D = {} THEN << >>
    ELSE <<SetMin({p[2] : p \in D}), SetMin({p[1] : p \in D}),
           SetMax({p[2] : p \in D}) + 1, SetMax({p[1] : p \in D}) + 1>>

\* The external contours of the binarised enhanced difference, each with its
\* contourArea and boundingRect. The contour tracing is not modelled pixel by
\* pixel: the differing pixels are taken as one blob spanning their bounding box,
\* whose contour through the border pixel centres encloses (w - 1) * (h - 1).
Contours(a, b) ==
    LET D == DiffPositions(a, b)
        bb == BBox(D)
    IN  IF D = {} THEN << >>
        ELSE << [id |-> 0, area |-> (bb[3] - bb[1] - 1) * (bb[4] - bb[2] - 1),
                 bbox |-> <<bb[1], bb[2], bb[3] - bb[1], bb[4] - bb[2]>>] >>

min_region_area == 100

max_regions == 10

RECURSIVE InsertByArea(_, _)
\* r placed into the sequence s, sorted by descending area, after the entries of
\* equal area (list.sort is stable)
InsertByArea(s, r) ==
    IF s = << >> THEN <<r>>
    ELSE IF Head(s).area >= r.area THEN <<Head(s)>> \o InsertByArea(Tail(s), r)
    ELSE <<r>> \o s

RECURSIVE SortByArea(_)
SortByArea(s) ==
    IF s = << >> THEN << >>
    ELSE InsertByArea(SortByArea(SubSeq(s, 1, Len(s) - 1)), s[Len(s)])

\* lines 310-326 without the slice of line 326: every region that passes the
\* filter is returned
find_difference_contours_mut(contours) ==
    LET big(r) == r.area > min_region_area
    IN  SortByArea(SelectSeq(contours, big))

\* lines 310-326: keep the contours with area > 100, sort by area (largest first),
\* return the first 10
find_difference_contours(contours) ==
    LET big(r) == r.area > min_region_area
        regions == SortByArea(SelectSeq(contours, big))
    IN  SubSeq(regions, 1, Min(Len(regions), max_regions))

ZeroTally ==
    [color_changes |-> 0, new_objects |-> 0, removed_objects |-> 0,
     moved_objects |-> 0, size_changes |-> 0]

\* lines 263-272: the result of the handler of extract_difference_regions;
\* difference_bbox << >> stands for None and change_analysis << >> for {}
NoRegions ==
    [has_differences |-> FALSE, difference_bbox |-> << >>, num_different_regions |-> 0,
     different_regions |-> << >>, change_analysis |-> << >>,
     enhanced_diff_b64 |-> "", raw_diff_b64 |-> "", changed_objects_b64 |-> ""]

\* the sum of channel ch over the crop img[y : y + h, x : x + w]
CropSum(img, bbox, ch) ==
    LET row(i) == SumTo([j \in 0 .. bbox[3] - 1 |-> img.px[<<bbox[2] + i, bbox[1] + j>>][ch]],
                        bbox[3] - 1)
    IN  SumTo([i \in 0 .. bbox[4] - 1 |-> row(i)], bbox[4] - 1)

\* lines 344-369 for one region: the tally with the region's counts added. The mean
\* colours are compared in 1/100 of a level: color_diff > 50 is the squared distance
\* above 5000^2; the brightness is the mean of the three channel means, so a
\* difference > 30 is a difference of the channel sums above 90 pixels.
TallyRegion(tally, a, b, region) ==
    LET n == region.bbox[3] * region.bbox[4]
        d(ch) == TruncDiv((CropSum(a, region.bbox, ch) - CropSum(b, region.bbox, ch)) * 100, n)
        dist2 == d(1) * d(1) + d(2) * d(2) + d(3) * d(3)
        sum1 == CropSum(a, region.bbox, 1) + CropSum(a, region.bbox, 2) + CropSum(a, region.bbox, 3)
        sum2 == CropSum(b, region.bbox, 1) + CropSum(b, region.bbox, 2) + CropSum(b, region.bbox, 3)
        colour == IF dist2 > 25000000 THEN 1 ELSE 0
        bright == Abs(sum1 - sum2) > 90 * n
    IN  [tally EXCEPT !.color_changes = @ + colour,
                      !.new_objects = @ + (IF bright /\ sum2 > sum1 THEN 1 ELSE 0),
                      !.removed_objects = @ + (IF bright /\ ~(sum2 > sum1) THEN 1 ELSE 0)]

RECURSIVE TallyRegions(_, _, _, _)
TallyRegions(tally, a, b, regions) ==
    IF regions = << >> THEN tally
    ELSE TallyRegions(TallyRegion(tally, a, b, Head(regions)), a, b, Tail(regions))

\* the tally over every region of the list
analyze_change_types_mut(a, b, regions) ==
    TallyRegions(ZeroTally, a, b, regions)

\* lines 335-371: the tally over the first 5 regions
analyze_change_types(a, b, regions) ==
    TallyRegions(ZeroTally, a, b, SubSeq(regions, 1, Min(Len(regions), 5)))

\* the library calls in the body of extract_difference_regions itself:
\* Image.fromarray, ImageChops.difference, getbbox, np.array (lines 228-242)
RegionBodyFaults == {"difference"}

\* the library calls inside _enhance_differences, _find_difference_contours,
\* _analyze_change_types and _extract_changed_objects, each with its own handler
RegionStageFaults == {"enhance", "contours", "change_types", "changed_objects"}

\* the three calls of _pil_to_base64 (lines 256-258), whose handler returns ""
EncodeFaults == {"png_enhanced", "png_raw", "png_objects"}

\* lines 383-390: the encoded picture ("png:" and what it shows), "" on a failure
pil_to_base64(picture, failed) == IF failed THEN "" ELSE "png:" \o picture

\* extract_difference_regions with one handler for everything: whatever fails, the
\* result is the degenerate one
extract_difference_regions_mut(a, b, s, flt) ==
    IF flt # {}
    THEN NoRegions
    ELSE LET diff_regions == find_difference_contours(Contours(a, b))
         IN  [has_differences |-> DiffPositions(a, b) # {},
              difference_bbox |-> BBox(DiffPositions(a, b)),
              num_different_regions |-> Len(diff_regions),
              different_regions |-> diff_regions,
              change_analysis |-> analyze_change_types(a, b, diff_regions),
              enhanced_diff_b64 |-> "png:enhanced",
              raw_diff_b64 |-> "png:raw",
              changed_objects_b64 |-> "png:objects"]

\* lines 226-272 while the library calls in flt raise. A failure in the body reaches
\* the handler of line 261; a failing stage falls back to its own default: the raw
\* difference as the enhanced image (line 299), no regions (line 330), the zero
\* tally (lines 375-381), a black picture (line 509). The contours of the raw
\* difference are taken as those of the enhanced one: the same one blob.
extract_difference_regions(a, b, s, flt) ==
    IF flt \cap RegionBodyFaults # {}
    THEN NoRegions
    ELSE LET D == DiffPositions(a, b)
             enhanced_diff == IF "enhance" \in flt THEN "raw" ELSE "enhanced"
             diff_regions == IF "contours" \in flt THEN << >>
                             ELSE find_difference_contours(Contours(a, b))
             change_analysis == IF "change_types" \in flt THEN ZeroTally
                                ELSE analyze_change_types(a, b, diff_regions)
             changed_objects == IF "changed_objects" \in flt THEN "black" ELSE "objects"
         IN  [has_differences |-> D # {},
              difference_bbox |-> BBox(D),
              num_different_regions |-> Len(diff_regions),
              different_regions |-> diff_regions,
              change_analysis |-> change_analysis,
              enhanced_diff_b64 |-> pil_to_base64(enhanced_diff, "png_enhanced" \in flt),
              raw_diff_b64 |-> pil_to_base64("raw", "png_raw" \in flt),
              changed_objects_b64 |-> pil_to_base64(changed_objects, "png_objects" \in flt)]

----------------------------------------------------------------------------
(* Inputs *)

\* the longest image side of the model
MaxSide == 8

\* image sides: from one below the SSIM window up to MaxSide
Sides == (win_size - 1) .. MaxSide

\* the byte buffers handed to the service
Files ==
    {Garbage, Truncated(win_size, win_size), PartialDiff(MaxSide)}
    \cup {Solid(c, h, w) : c \in {Red, Blue}, h \in Sides, w \in Sides}

\* the arrays handed to the array-level functions
Arrays == {preprocess_image(f) : f \in {g \in Files : ~PreprocessRaises(g)}}

\* sensitivity = 50.0 in the signatures of compare_images and
\* calculate_pixel_differences
DefaultSensitivity == 50

Sensitivities == {1, DefaultSensitivity, 60, 100}

\* the sensitivity is a float that neither compare_images nor the analyzers
\* validate: values below 1 and above 100 reach the threshold lines
AnySensitivity == -100 .. 300

\* the rectangle whose x .. x + width - 1 and y .. y + height - 1 are the columns and
\* rows of the blue rectangle of PartialDiff(MaxSide)
CoverRect ==
    LET box == PartialDiff(MaxSide).box
    IN  Rect(box[1], box[2], box[3] - box[1] + 1, box[4] - box[2] + 1)

\* a rectangle whose 'x' entry is not a number
Malformed == [Rect(0, 0, 1, 1) EXCEPT !.ok = FALSE]

\* ignore_regions arguments; << >> stands for None and for the empty list
RegionLists ==
    { << >>,
      << Rect(1, 1, 2, 2) >>,
      << CoverRect >>,
      << [Rect(0, 0, 1, 1) EXCEPT !.type = "ellipse"], Freeform(<< <<0, 0>>, <<3, 3>> >>),
         Rect(-2, 5, 20, 1) >>,
      << Freeform(<< <<0, 0>>, <<3, 0>>, <<0, 3>> >>) >>,
      << CoverRect, Malformed >> }

\* rectangles with coordinates inside, below and beyond the image and with positive,
\* zero and negative extents
OutOfRangeRects ==
    {Rect(x, y, width, height) :
        x \in {-3, 0, 2, MaxSide - 1, MaxSide + 5}, y \in {-1, 3, MaxSide + 2},
        width \in {-2, 0, 1, 3, 50}, height \in {-1, 0, 2, 50}}

\* ignore_regions arguments of the direct calls of apply_ignore_mask
MaskRegionLists ==
    RegionLists
    \cup {<<r>> : r \in OutOfRangeRects}
    \cup {<<Malformed, CoverRect>>, <<Rect(0, 0, 1, 1), Freeform(<< <<0, 0>>, <<3, 3>> >>), Malformed>>}
    \cup {<< [Malformed EXCEPT !.type = "ellipse"],
              [Freeform(<< <<0, 0>>, <<1, 1>> >>) EXCEPT !.ok = FALSE],
              Rect(1, 1, 2, 2) >>,
           << [Rect(0, 0, 3, 3) EXCEPT !.type = "circle"], Freeform(<< >>) >>}

\* the side of the images of the direct calls of extract_difference_regions: long
\* enough for a contour whose area exceeds min_region_area
RegionSide == MaxSide + 4

\* the pairs of arrays of one shape handed to extract_difference_regions
RegionPairs ==
    LET big == {preprocess_image(f) :
                   f \in {Solid(c, RegionSide, RegionSide) : c \in {Red, Blue, Black}}
                          \cup {PartialDiff(RegionSide)}}
        small == {preprocess_image(Solid(c, MaxSide, MaxSide)) : c \in {Red, Blue}}
    IN  (big \X big) \cup (small \X small)

\* any of the library calls of the region extractor may raise during one call
RegionFaultSets == SUBSET (RegionBodyFaults \cup RegionStageFaults \cup EncodeFaults)

\* the values the four kernels compute (texture, colour, edge, hash) in the direct
\* calls of calculate_perceptual_similarity
SubMetricValues == {0, 300, 1000} \X {0, 300, 1000} \X {0, 300, 1000} \X {0, 300, 1000}

\* any of the library calls of the perceptual analyzer may raise during one call
PerceptualFaultSets == SUBSET (PerceptualBodyFaults \cup SubMetricFaults)

\* the longest contour list cv2.findContours hands to the filter in the model
MaxContours == 12

\* one contour of cv2.findContours: the outline of a square blob of the given width
\* in pixels, the i-th of the list (line 311 enumerates from 0); its contourArea
\* is (width - 1) ^ 2 and its boundingRect is width x width
Blob(i, width) ==
    [id |-> i, area |-> (width - 1) * (width - 1), bbox |-> <<30 * i, 0, width, width>>]

\* blob widths: areas 121, 400 and 225 several times each, 100 (not above the
\* minimum) and 81
BlobWidths == <<12, 21, 12, 16, 11, 12, 21, 16, 12, 21, 12, 16, 10>>

\* the contour lists of the direct calls: up to MaxContours blobs, their widths
\* running through BlobWidths with stride k from offset o (stride 0: all equal)
ContourLists ==
    {[i \in 1 .. n |-> Blob(i - 1, BlobWidths[((i * k + o) % Len(BlobWidths)) + 1])] :
        n \in 0 .. MaxContours, k \in 0 .. 1, o \in 0 .. Len(BlobWidths) - 1}

\* the widths and heights of the decodable images handed to preprocess_image
\* directly: below, at and above max_dimension
ImageSides == {2, 100, 561, 2000, 2047, 2048, 2049, 2215, 2244, 3000, 4096}

\* the callers that use one service instance at the same time
Comparisons == {1, 2}

\* the arguments of the calls made at the same time: <<image1_data, image2_data,
\* sensitivity, ignore_regions>>, all of them valid and large enough for SSIM
ConcurrentCalls ==
    { <<Solid(Red, MaxSide, MaxSide), Solid(Red, MaxSide, MaxSide), 60, << >> >>,
      <<Solid(Red, MaxSide, MaxSide), Solid(Blue, win_size, MaxSide), 100, <<Rect(1, 1, 2, 2)>> >>,
      <<PartialDiff(MaxSide), Solid(Red, MaxSide, MaxSide), 60, << >> >>,
      <<Solid(Blue, MaxSide, win_size), PartialDiff(MaxSide), 100, << >> >> }

\* a grey ramp: column c has the level c * (255 \div w) in the three channels
Ramp(h, w) ==
    [h |-> h, w |-> w,
     px |-> [p \in Pos(h, w) |-> <<p[2] * (255 \div w), p[2] * (255 \div w), p[2] * (255 \div w)>>]]

\* pairs of arrays of one size: a ramp against black (grey differences from 0 up in
\* equal steps), red against blue, the partial_diff fixture against red, and two
\* equal images
EqualSizePairs ==
    { <<Ramp(MaxSide, MaxSide), preprocess_image(Solid(Black, MaxSide, MaxSide))>>,
      <<preprocess_image(Solid(Red, MaxSide, MaxSide)), preprocess_image(Solid(Blue, MaxSide, MaxSide))>>,
      <<preprocess_image(PartialDiff(MaxSide)), preprocess_image(Solid(Red, MaxSide, MaxSide))>>,
      <<preprocess_image(Solid(Red, win_size, MaxSide)), preprocess_image(Solid(Red, win_size, MaxSide))>> }

\* the documented sensitivities (1-100): 1 and every fifth percent
DocumentedSensitivities == {1} \cup {5 * k : k \in 1 .. 20}

\* the callers that hold a session of DatabaseService at the same time
Sessions == {1, 2}

\* the most rows stored before the model stops issuing ids
MaxRows == 2

\* the awaited calls of a session that may raise an Exception: execute (line 168),
\* delete (line 174), flush (line 90), commit (line 53), rollback (line 55)
SessionFaults == {"execute", "delete", "flush", "commit", "rollback"}

\* the calls that raise during one session: none, one, or one together with the
\* rollback that follows it
SessionFaultSets ==
    {{}} \cup {{f} : f \in SessionFaults}
         \cup {{f, "rollback"} : f \in SessionFaults \ {"rollback"}}

\* the colours of the columns of the first and of the second patchwork image: a
\* patch that brightens, one that darkens, one that changes hue at equal
\* brightness, small changes below and around the two thresholds, and no change
PatchColours1 ==
    << Black, <<200, 200, 200>>, Red, <<10, 10, 10>>, Black, Black, Black, <<7, 8, 9>> >>

PatchColours2 ==
    << <<200, 200, 200>>, Black, Blue, <<20, 20, 20>>, <<29, 29, 29>>, <<31, 31, 31>>,
       <<91, 0, 0>>, <<7, 8, 9>> >>

Patchwork(colours, h, w) ==
    [h |-> h, w |-> w, px |-> [p \in Pos(h, w) |-> colours[(p[2] % Len(colours)) + 1]]]

\* the longest region list handed to _analyze_change_types in the model
MaxRegions == 7

\* a region as _find_difference_contours builds it, over the columns x .. x + width - 1
\* of an image of the given side
Strip_region(x, width, side) ==
    [id |-> x, bbox |-> <<x, 0, width, side>>, area |-> (width - 1) * (side - 1)]

\* region lists of 0 .. MaxRegions strips, one every step columns from a start
\* column, in the order of line 323 (largest area first)
ChangeRegionLists ==
    { SortByArea([k \in 1 .. n |->
          LET x == (start + step * (k - 1)) % MaxSide
          IN  Strip_region(x, Min(width, MaxSide - x), MaxSide)]) :
        n \in 0 .. MaxRegions, start \in 0 .. MaxSide - 1, step \in {1, 3}, width \in 1 .. 2 }

\* the image pairs of the direct calls: the two patchworks, in both orders
PatchworkPairs ==
    { <<Patchwork(PatchColours1, MaxSide, MaxSide), Patchwork(PatchColours2, MaxSide, MaxSide)>>,
      <<Patchwork(PatchColours2, MaxSide, MaxSide), Patchwork(PatchColours1, MaxSide, MaxSide)>> }

\* comparison_result arguments of calculate_difference_score
MetricSets ==
    {[ok |-> TRUE, difference_percentage |-> d, ssim |-> q, mse |-> m] :
        d \in {0, 25000, 100000}, q \in {-1000, 0, 700, 1000}, m \in {0, 50000, 1000000}}
    \cup {[ok |-> FALSE, difference_percentage |-> 0, ssim |-> 0, mse |-> 0]}

\* at most one library call of the pixel-difference analyzer raises during a call
PixelFaultSets == {{}} \cup {{f} : f \in MetricFaults \cup VisualizationFaults}

\* an exception in the try block of calculate_difference_score (lines 629-656)
ScoreFaults == {"score"}

AllFaults ==
    MetricFaults \cup VisualizationFaults \cup PerceptualBodyFaults \cup SubMetricFaults
    \cup RegionBodyFaults \cup RegionStageFaults \cup EncodeFaults \cup ScoreFaults

\* the buffers of the calls during which a library call fails
FaultedFiles == {Garbage, Solid(Red, MaxSide, MaxSide), PartialDiff(MaxSide)}

\* the calls of compare_images: <<image1_data, image2_data, sensitivity,
\* ignore_regions>> and the library calls that raise while the call runs (none, or
\* one on a call without ignore regions)
Calls ==
    (Files \X Files \X Sensitivities \X RegionLists \X {{}})
    \cup (FaultedFiles \X FaultedFiles \X Sensitivities \X {<< >>} \X {{f} : f \in AllFaults})

PerceptualArgs == {PercNone, PercEmpty, PercNoKey, Perc(0), Perc(500), Perc(1000)}

----------------------------------------------------------------------------
(* State *)

NoResult ==
    [difference_score |-> -1, metrics |-> NoDiff, perceptual |-> NoPerceptual,
     difference_analysis |-> NoRegions, dimensions |-> "", processed |-> FALSE]

NoScoreCall == [called |-> FALSE, comparison_result |-> [ok |-> FALSE, difference_percentage |-> 0, ssim |-> 0, mse |-> 0],
                perceptual_result |-> PercNone, score |-> 0]

NoResizeCall == [called |-> FALSE, in1 |-> NoImage, in2 |-> NoImage, out1 |-> NoImage, out2 |-> NoImage]

NoPixelCall == [called |-> FALSE, in1 |-> NoImage, in2 |-> NoImage, sensitivity |-> 0,
                faults |-> {}, out |-> NoDiff]

NoMaskCall == [called |-> FALSE, image |-> NoImage, ignore_regions |-> << >>,
               image_after |-> NoImage, out |-> NoImage]

NoRegionCall == [called |-> FALSE, in1 |-> NoImage, in2 |-> NoImage, sensitivity |-> 0,
                 faults |-> {}, out |-> NoRegions]

NoPerceptualCall == [called |-> FALSE, values |-> <<0, 0, 0, 0>>, faults |-> {}, out |-> NoPerceptual]

NoBoundCall == [called |-> FALSE, width |-> 0, height |-> 0, shape |-> <<0, 0>>]

\* comparison_results: the committed rows (by id) and the number of ids issued
EmptyTable == [rows |-> {}, issued |-> 0]

\* a session: the operation that opened it, the position in get_session and in the
\* operation's body, the id the operation is about, the unit of work not yet
\* committed (ids to insert, ids to delete), what commit wrote, and what the caller
\* got: a value or the exception of the call named in raised
NoSession ==
    [pc |-> "idle", op |-> "none", faults |-> {}, id |-> 0, found |-> FALSE,
     inserts |-> {}, deletes |-> {}, committed |-> FALSE, commit_called |-> FALSE,
     rollback_called |-> FALSE, closed |-> FALSE, written |-> {}, erased |-> {},
     raised |-> "", first_raised |-> "", value |-> "none"]

NoChangeCall == [called |-> FALSE, img1 |-> NoImage, img2 |-> NoImage, regions |-> << >>,
                 out |-> ZeroTally]

Analyzers == {"pixel", "perceptual", "regions"}

\* a caller without a running call; sequential is what compare_images returns for
\* the caller's arguments when nothing else runs (kept for comparison)
NoComparison ==
    [state |-> "idle", image1_data |-> Garbage, image2_data |-> Garbage,
     sensitivity |-> DefaultSensitivity, ignore_regions |-> << >>, kernels |-> <<0, 0, 0, 0>>,
     img1 |-> NoImage, img2 |-> NoImage, pending |-> {},
     diff_result |-> NoDiff, perceptual_result |-> NoPerceptual,
     difference_regions |-> NoRegions, result |-> NoResult, sequential |-> NoResult]

Init ==
    /\ pc = "idle"
    /\ image1_data = Garbage
    /\ image2_data = Garbage
    /\ sensitivity = DefaultSensitivity
    /\ ignore_regions = << >>
    /\ img1 = NoImage
    /\ img2 = NoImage
    /\ diff_result = NoDiff
    /\ perceptual_result = NoPerceptual
    /\ difference_regions = NoRegions
    /\ result = NoResult
    /\ error = ""
    /\ trace = << >>
    /\ scoreCur = NoScoreCall
    /\ scorePrev = NoScoreCall
    /\ resizeCall = NoResizeCall
    /\ pixelCall = NoPixelCall
    /\ faults = {}
    /\ thresholdCalls = << >>
    /\ maskCall = NoMaskCall
    /\ regionCall = NoRegionCall
    /\ perceptualCall = NoPerceptualCall
    /\ contourCalls = << >>
    /\ boundCall = NoBoundCall
    /\ comparisons = [i \in Comparisons |-> NoComparison]
    /\ sensitivityCalls = << >>
    /\ changeCall = NoChangeCall
    /\ table = EmptyTable
    /\ sessions = [s \in Sessions |-> NoSession]

unitVars == <<scoreCur, scorePrev, resizeCall, pixelCall,
              thresholdCalls, maskCall, regionCall, perceptualCall,
              contourCalls,
              boundCall,
              comparisons,
              sensitivityCalls,
              changeCall,
              table,
              sessions>>

\* what a call of compare_images is given: its arguments and the library calls that
\* fail while it runs
args == <<image1_data, image2_data, sensitivity, ignore_regions, faults>>

----------------------------------------------------------------------------
(* compare_images, one action per statement of lines 675-755 *)

\* a caller invokes compare_images(image1_data, image2_data, sensitivity, ignore_regions)
CompareCall ==
    /\ pc = "idle"
    /\ \E c \in Calls :
          /\ image1_data' = c[1]
          /\ image2_data' = c[2]
          /\ sensitivity' = c[3]
          /\ ignore_regions' = c[4]
          /\ faults' = c[5]
    /\ pc' = "validate1"
    /\ img1' = NoImage /\ img2' = NoImage
    /\ diff_result' = NoDiff
    /\ perceptual_result' = NoPerceptual
    /\ difference_regions' = NoRegions
    /\ result' = NoResult
    /\ error' = ""
    /\ trace' = << >>
    /\ UNCHANGED unitVars

\* an exception leaves compare_images with the given message (line 755 re-raises)
Raise(msg) ==
    /\ pc' = "raised"
    /\ error' = msg

\* lines 677-678
ValidateFirst ==
    /\ pc = "validate1"
    /\ trace' = Append(trace, "validate1")
    /\ IF ~validate_image(image1_data)
       THEN Raise("Invalid first image")
       ELSE pc' = "validate2" /\ UNCHANGED error
    /\ UNCHANGED <<args, img1, img2, diff_result, perceptual_result, difference_regions, result, unitVars>>

\* the second validation without its raise: the call goes on whatever the buffer is
ValidateSecondMut ==
    /\ pc = "validate2"
    /\ trace' = Append(trace, "validate2")
    /\ pc' = "preprocess1"
    /\ UNCHANGED <<args, img1, img2, diff_result, perceptual_result, difference_regions,
                   result, error, unitVars>>

\* lines 679-680
ValidateSecond ==
    /\ pc = "validate2"
    /\ trace' = Append(trace, "validate2")
    /\ IF ~validate_image(image2_data)
       THEN Raise("Invalid second image")
       ELSE pc' = "preprocess1" /\ UNCHANGED error
    /\ UNCHANGED <<args, img1, img2, diff_result, perceptual_result, difference_regions, result, unitVars>>

\* line 685
PreprocessFirst ==
    /\ pc = "preprocess1"
    /\ trace' = Append(trace, "preprocess1")
    /\ IF PreprocessRaises(image1_data)
       THEN Raise("Failed to preprocess image") /\ UNCHANGED img1
       ELSE pc' = "preprocess2" /\ img1' = preprocess_image(image1_data) /\ UNCHANGED error
    /\ UNCHANGED <<args, img2, diff_result, perceptual_result, difference_regions, result, unitVars>>

\* line 686
PreprocessSecond ==
    /\ pc = "preprocess2"
    /\ trace' = Append(trace, "preprocess2")
    /\ IF PreprocessRaises(image2_data)
       THEN Raise("Failed to preprocess image") /\ UNCHANGED img2
       ELSE pc' = "resize" /\ img2' = preprocess_image(image2_data) /\ UNCHANGED error
    /\ UNCHANGED <<args, img1, diff_result, perceptual_result, difference_regions, result, unitVars>>

\* line 691
Reconcile ==
    /\ pc = "resize"
    /\ trace' = Append(trace, "resize")
    /\ LET pair == resize_images_to_match(img1, img2)
       IN  img1' = pair[1] /\ img2' = pair[2]
    /\ pc' = "mask"
    /\ UNCHANGED <<args, diff_result, perceptual_result, difference_regions, result, error, unitVars>>

\* lines 694-698 with the second image left unmasked
ApplyMasksMut ==
    /\ pc = "mask"
    /\ IF ignore_regions # << >>
       THEN /\ trace' = Append(trace, "mask")
            /\ img1' = apply_ignore_mask(img1, ignore_regions)
            /\ img2' = img2
       ELSE UNCHANGED <<trace, img1, img2>>
    /\ pc' = "pixel"
    /\ UNCHANGED <<args, diff_result, perceptual_result, difference_regions, result, error, unitVars>>

\* lines 694-698: the masks are applied only when ignore_regions is non-empty
ApplyMasks ==
    /\ pc = "mask"
    /\ IF ignore_regions # << >>
       THEN /\ trace' = Append(trace, "mask")
            /\ img1' = apply_ignore_mask(img1, ignore_regions)
            /\ img2' = apply_ignore_mask(img2, ignore_regions)
       ELSE UNCHANGED <<trace, img1, img2>>
    /\ pc' = "pixel"
    /\ UNCHANGED <<args, diff_result, perceptual_result, difference_regions, result, error, unitVars>>

\* line 701 with a failure of the analyzer swallowed: the comparison goes on with
\* default metrics
PixelDifferencesMut ==
    /\ pc = "pixel"
    /\ trace' = Append(trace, "pixel")
    /\ LET d == calculate_pixel_differences(img1, img2, sensitivity, faults)
       IN  diff_result' = IF d.raised THEN NoDiff ELSE d
    /\ pc' = "perceptual"
    /\ UNCHANGED <<args, img1, img2, perceptual_result, difference_regions, result, error, unitVars>>

\* line 701
PixelDifferences ==
    /\ pc = "pixel"
    /\ trace' = Append(trace, "pixel")
    /\ LET d == calculate_pixel_differences(img1, img2, sensitivity, faults)
       IN  IF d.raised
           THEN Raise(d.message) /\ UNCHANGED diff_result
           ELSE pc' = "perceptual" /\ diff_result' = d /\ UNCHANGED error
    /\ UNCHANGED <<args, img1, img2, perceptual_result, difference_regions, result, unitVars>>

\* line 704 with the handler of line 140 re-raising
PerceptualSimilarityMut ==
    /\ pc = "perceptual"
    /\ trace' = Append(trace, "perceptual")
    /\ IF faults \cap PerceptualBodyFaults # {}
       THEN Raise("perceptual similarity failed") /\ UNCHANGED perceptual_result
       ELSE /\ \E m \in SubMetrics(img1, img2) :
                  perceptual_result' = calculate_perceptual_similarity(m, faults)
            /\ pc' = "regions"
            /\ UNCHANGED error
    /\ UNCHANGED <<args, img1, img2, diff_result, difference_regions, result, unitVars>>

\* line 704
PerceptualSimilarity ==
    /\ pc = "perceptual"
    /\ trace' = Append(trace, "perceptual")
    /\ \E m \in SubMetrics(img1, img2) :
          perceptual_result' = calculate_perceptual_similarity(m, faults)
    /\ pc' = "regions"
    /\ UNCHANGED <<args, img1, img2, diff_result, difference_regions, result, error, unitVars>>

\* line 707
ExtractRegions ==
    /\ pc = "regions"
    /\ trace' = Append(trace, "regions")
    /\ difference_regions' = extract_difference_regions(img1, img2, sensitivity, faults)
    /\ pc' = "score"
    /\ UNCHANGED <<args, img1, img2, diff_result, perceptual_result, result, error, unitVars>>

\* the dimensions string with height and width exchanged
FormatDimensionsMut(img) == ToString(img.h) \o "x" \o ToString(img.w)

\* line 743: f"{img1.shape[1]}x{img1.shape[0]}", the shape being (rows, columns, 3)
FormatDimensions(img) == ToString(img.w) \o "x" \o ToString(img.h)

\* the score fused from the pixel metrics alone when the perceptual analysis
\* returned its zero defaults
FuseAndReturnMut ==
    /\ pc = "score"
    /\ trace' = Append(trace, "score")
    /\ result' =
          [difference_score |->
               calculate_difference_score(
                   [ok |-> faults \cap ScoreFaults = {},
                    difference_percentage |-> diff_result.difference_percentage,
                    ssim |-> diff_result.ssim, mse |-> diff_result.mse],
                   IF perceptual_result = NoPerceptual
                   THEN PercNone
                   ELSE Perc(perceptual_result.overall_perceptual)),
           metrics |-> diff_result,
           perceptual |-> perceptual_result,
           difference_analysis |-> difference_regions,
           dimensions |-> FormatDimensions(img1),
           processed |-> TRUE]
    /\ pc' = "done"
    /\ UNCHANGED <<args, img1, img2, diff_result, perceptual_result, difference_regions, error, unitVars>>

\* lines 710-751: fuse the score, assemble the result and return it
FuseAndReturn ==
    /\ pc = "score"
    /\ trace' = Append(trace, "score")
    /\ result' =
          [difference_score |->
               calculate_difference_score(
                   [ok |-> faults \cap ScoreFaults = {},
                    difference_percentage |-> diff_result.difference_percentage,
                    ssim |-> diff_result.ssim, mse |-> diff_result.mse],
                   Perc(perceptual_result.overall_perceptual)),
           metrics |-> diff_result,
           perceptual |-> perceptual_result,
           difference_analysis |-> difference_regions,
           dimensions |-> FormatDimensions(img1),
           processed |-> TRUE]
    /\ pc' = "done"
    /\ UNCHANGED <<args, img1, img2, diff_result, perceptual_result, difference_regions, error, unitVars>>

\* the caller takes the result or the exception; the locals of the call are gone
\* and the service is ready for the next call
Return ==
    /\ pc \in {"done", "raised"}
    /\ pc' = "idle"
    /\ image1_data' = Garbage
    /\ image2_data' = Garbage
    /\ sensitivity' = DefaultSensitivity
    /\ ignore_regions' = << >>
    /\ img1' = NoImage /\ img2' = NoImage
    /\ diff_result' = NoDiff
    /\ perceptual_result' = NoPerceptual
    /\ difference_regions' = NoRegions
    /\ result' = NoResult
    /\ error' = ""
    /\ trace' = << >>
    /\ faults' = {}
    /\ UNCHANGED unitVars

Next ==
    \/ CompareCall
    \/ ValidateFirst
    \/ ValidateSecond
    \/ PreprocessFirst
    \/ PreprocessSecond
    \/ Reconcile
    \/ ApplyMasks
    \/ PixelDifferences
    \/ PerceptualSimilarity
    \/ ExtractRegions
    \/ FuseAndReturn
    \/ Return

Spec == Init /\ [][Next]_vars

----------------------------------------------------------------------------
(* Direct calls of the service's functions, as the unit tests make them *)

\* calculate_difference_score(comparison_result, perceptual_result); the two latest
\* calls are kept
ScoreCall ==
    /\ ~scorePrev.called
    /\ \E cr \in MetricSets, pr \in PerceptualArgs :
          scoreCur' = [called |-> TRUE, comparison_result |-> cr, perceptual_result |-> pr,
                       score |-> calculate_difference_score(cr, pr)]
    /\ scorePrev' = scoreCur
    /\ UNCHANGED <<compareVars, resizeCall, pixelCall, thresholdCalls, maskCall, regionCall, perceptualCall, contourCalls, boundCall, comparisons, sensitivityCalls, changeCall, table, sessions>>

\* the recorded calls are dropped
ScoreReturn ==
    /\ scoreCur.called
    /\ scoreCur' = NoScoreCall
    /\ scorePrev' = NoScoreCall
    /\ UNCHANGED <<compareVars, resizeCall, pixelCall, thresholdCalls, maskCall, regionCall, perceptualCall, contourCalls, boundCall, comparisons, sensitivityCalls, changeCall, table, sessions>>

NextScore == ScoreCall \/ ScoreReturn

SpecScore == Init /\ [][NextScore]_vars

\* resize_images_to_match(img1, img2)
ResizeCall ==
    /\ ~resizeCall.called
    /\ \E a \in Arrays, b \in Arrays :
          LET pair == resize_images_to_match(a, b)
          IN  resizeCall' = [called |-> TRUE, in1 |-> a, in2 |-> b, out1 |-> pair[1], out2 |-> pair[2]]
    /\ UNCHANGED <<compareVars, scoreCur, scorePrev, pixelCall, thresholdCalls, maskCall, regionCall, perceptualCall, contourCalls, boundCall, comparisons, sensitivityCalls, changeCall, table, sessions>>

ResizeReturn ==
    /\ resizeCall.called
    /\ resizeCall' = NoResizeCall
    /\ UNCHANGED <<compareVars, scoreCur, scorePrev, pixelCall, thresholdCalls, maskCall, regionCall, perceptualCall, contourCalls, boundCall, comparisons, sensitivityCalls, changeCall, table, sessions>>

NextResize == ResizeCall \/ ResizeReturn

SpecResize == Init /\ [][NextResize]_vars

\* calculate_pixel_differences(img1, img2, sensitivity)
PixelCall ==
    /\ ~pixelCall.called
    /\ \E a \in Arrays, b \in Arrays, s \in Sensitivities, flt \in PixelFaultSets :
          pixelCall' = [called |-> TRUE, in1 |-> a, in2 |-> b, sensitivity |-> s,
                        faults |-> flt,
                        out |-> calculate_pixel_differences(a, b, s, flt)]
    /\ UNCHANGED <<compareVars, scoreCur, scorePrev, resizeCall, thresholdCalls, maskCall, regionCall, perceptualCall, contourCalls, boundCall, comparisons, sensitivityCalls, changeCall, table, sessions>>

PixelReturn ==
    /\ pixelCall.called
    /\ pixelCall' = NoPixelCall
    /\ UNCHANGED <<compareVars, scoreCur, scorePrev, resizeCall, thresholdCalls, maskCall, regionCall, perceptualCall, contourCalls, boundCall, comparisons, sensitivityCalls, changeCall, table, sessions>>

NextPixel == PixelCall \/ PixelReturn

SpecPixel == Init /\ [][NextPixel]_vars

\* apply_ignore_mask(image, ignore_regions): masked_image is a copy (line 405) and
\* the drawing goes to the copy (line 412), so the caller's image is as it was
MaskCall ==
    /\ ~maskCall.called
    /\ \E image \in Arrays, rl \in MaskRegionLists :
          maskCall' = [called |-> TRUE, image |-> image, ignore_regions |-> rl,
                       image_after |-> image,
                       out |-> apply_ignore_mask(image, rl)]
    /\ UNCHANGED <<compareVars, scoreCur, scorePrev, resizeCall, pixelCall, thresholdCalls, regionCall, perceptualCall, contourCalls, boundCall, comparisons, sensitivityCalls, changeCall, table, sessions>>

MaskReturn ==
    /\ maskCall.called
    /\ maskCall' = NoMaskCall
    /\ UNCHANGED <<compareVars, scoreCur, scorePrev, resizeCall, pixelCall, thresholdCalls, regionCall, perceptualCall, contourCalls, boundCall, comparisons, sensitivityCalls, changeCall, table, sessions>>

NextMask == MaskCall \/ MaskReturn

SpecMask == Init /\ [][NextMask]_vars

\* extract_difference_regions(img1, img2, sensitivity)
RegionCall ==
    /\ ~regionCall.called
    /\ \E pair \in RegionPairs, s \in {DefaultSensitivity, 100}, flt \in RegionFaultSets :
          regionCall' = [called |-> TRUE, in1 |-> pair[1], in2 |-> pair[2], sensitivity |-> s,
                         faults |-> flt,
                         out |-> extract_difference_regions(pair[1], pair[2], s, flt)]
    /\ UNCHANGED <<compareVars, scoreCur, scorePrev, resizeCall, pixelCall, thresholdCalls, maskCall, perceptualCall, contourCalls, boundCall, comparisons, sensitivityCalls, changeCall, table, sessions>>

RegionReturn ==
    /\ regionCall.called
    /\ regionCall' = NoRegionCall
    /\ UNCHANGED <<compareVars, scoreCur, scorePrev, resizeCall, pixelCall, thresholdCalls, maskCall, perceptualCall, contourCalls, boundCall, comparisons, sensitivityCalls, changeCall, table, sessions>>

NextRegions == RegionCall \/ RegionReturn

SpecRegions == Init /\ [][NextRegions]_vars

\* calculate_perceptual_similarity(img1, img2) on images for which the kernels
\* compute the values m
PerceptualCall ==
    /\ ~perceptualCall.called
    /\ \E m \in SubMetricValues, flt \in PerceptualFaultSets :
          perceptualCall' = [called |-> TRUE, values |-> m, faults |-> flt,
                             out |-> calculate_perceptual_similarity(m, flt)]
    /\ UNCHANGED <<compareVars, scoreCur, scorePrev, resizeCall, pixelCall, thresholdCalls, maskCall, regionCall, contourCalls, boundCall, comparisons, sensitivityCalls, changeCall, table, sessions>>

PerceptualReturn ==
    /\ perceptualCall.called
    /\ perceptualCall' = NoPerceptualCall
    /\ UNCHANGED <<compareVars, scoreCur, scorePrev, resizeCall, pixelCall, thresholdCalls, maskCall, regionCall, contourCalls, boundCall, comparisons, sensitivityCalls, changeCall, table, sessions>>

NextPerceptual == PerceptualCall \/ PerceptualReturn

SpecPerceptual == Init /\ [][NextPerceptual]_vars

\* the threshold lines of calculate_pixel_differences (539-540) and of
\* _extract_changed_objects (475-476) evaluated for one sensitivity; the two latest
\* evaluations are kept
ThresholdCall ==
    /\ Len(thresholdCalls) < 2
    /\ \E s \in AnySensitivity :
          thresholdCalls' = Append(thresholdCalls,
                                   [sensitivity |-> s, pixel |-> ThresholdOf(s),
                                    objects |-> ChangedObjectsThreshold(s)])
    /\ UNCHANGED <<compareVars, scoreCur, scorePrev, resizeCall, pixelCall, maskCall, regionCall, perceptualCall, contourCalls, boundCall, comparisons, sensitivityCalls, changeCall, table, sessions>>

ThresholdReturn ==
    /\ thresholdCalls # << >>
    /\ thresholdCalls' = << >>
    /\ UNCHANGED <<compareVars, scoreCur, scorePrev, resizeCall, pixelCall, maskCall, regionCall, perceptualCall, contourCalls, boundCall, comparisons, sensitivityCalls, changeCall, table, sessions>>

NextThreshold == ThresholdCall \/ ThresholdReturn

SpecThreshold == Init /\ [][NextThreshold]_vars

\* lines 242 and 253-254 of extract_difference_regions on a pair of images whose
\* enhanced difference has the contours cs: the call of _find_difference_contours
\* and the two entries of the result made from its list; the two latest calls are
\* kept
ContourCall ==
    /\ Len(contourCalls) < 2
    /\ \E cs \in ContourLists :
          LET diff_regions == find_difference_contours(cs)
          IN  contourCalls' = Append(contourCalls,
                                     [contours |-> cs,
                                      num_different_regions |-> Len(diff_regions),
                                      different_regions |-> diff_regions])
    /\ UNCHANGED <<compareVars, scoreCur, scorePrev, resizeCall, pixelCall, thresholdCalls, maskCall, regionCall, perceptualCall, boundCall, comparisons, sensitivityCalls, changeCall, table, sessions>>

ContourReturn ==
    /\ contourCalls # << >>
    /\ contourCalls' = << >>
    /\ UNCHANGED <<compareVars, scoreCur, scorePrev, resizeCall, pixelCall, thresholdCalls, maskCall, regionCall, perceptualCall, boundCall, comparisons, sensitivityCalls, changeCall, table, sessions>>

NextContours == ContourCall \/ ContourReturn

SpecContours == Init /\ [][NextContours]_vars

\* preprocess_image on a complete file of width x height pixels (lines 52-69): the
\* shape (rows, columns) of the array returned; the pixel data is left out
BoundCall ==
    /\ ~boundCall.called
    /\ \E width \in ImageSides, height \in ImageSides :
          LET size == BoundedSize(width, height)
          IN  boundCall' = [called |-> TRUE, width |-> width, height |-> height,
                            shape |-> <<size[2], size[1]>>]
    /\ UNCHANGED <<compareVars, scoreCur, scorePrev, resizeCall, pixelCall, thresholdCalls, maskCall, regionCall, perceptualCall, contourCalls, comparisons, sensitivityCalls, changeCall, table, sessions>>

BoundReturn ==
    /\ boundCall.called
    /\ boundCall' = NoBoundCall
    /\ UNCHANGED <<compareVars, scoreCur, scorePrev, resizeCall, pixelCall, thresholdCalls, maskCall, regionCall, perceptualCall, contourCalls, comparisons, sensitivityCalls, changeCall, table, sessions>>

NextBound == BoundCall \/ BoundReturn

SpecBound == Init /\ [][NextBound]_vars

\* calculate_pixel_differences(img1, img2, sensitivity) called twice on one pair of
\* images with two sensitivities; both calls are kept
SensitivityCall ==
    /\ Len(sensitivityCalls) < 2
    /\ \E pair \in EqualSizePairs, s \in DocumentedSensitivities :
          /\ sensitivityCalls # << >> =>
                pair = <<sensitivityCalls[1].in1, sensitivityCalls[1].in2>>
          /\ sensitivityCalls' =
                Append(sensitivityCalls,
                       [in1 |-> pair[1], in2 |-> pair[2], sensitivity |-> s,
                        out |-> calculate_pixel_differences(pair[1], pair[2], s, {})])
    /\ UNCHANGED <<compareVars, scoreCur, scorePrev, resizeCall, pixelCall, thresholdCalls, maskCall, regionCall, perceptualCall, contourCalls, boundCall, comparisons, changeCall, table, sessions>>

SensitivityReturn ==
    /\ sensitivityCalls # << >>
    /\ sensitivityCalls' = << >>
    /\ UNCHANGED <<compareVars, scoreCur, scorePrev, resizeCall, pixelCall, thresholdCalls, maskCall, regionCall, perceptualCall, contourCalls, boundCall, comparisons, changeCall, table, sessions>>

NextSensitivity == SensitivityCall \/ SensitivityReturn

SpecSensitivity == Init /\ [][NextSensitivity]_vars

\* _analyze_change_types(img1, img2, regions)
ChangeCall ==
    /\ ~changeCall.called
    /\ \E pair \in PatchworkPairs, regions \in ChangeRegionLists :
          changeCall' = [called |-> TRUE, img1 |-> pair[1], img2 |-> pair[2],
                         regions |-> regions,
                         out |-> analyze_change_types(pair[1], pair[2], regions)]
    /\ UNCHANGED <<compareVars, scoreCur, scorePrev, resizeCall, pixelCall, thresholdCalls, maskCall, regionCall, perceptualCall, contourCalls, boundCall, comparisons, sensitivityCalls, table, sessions>>

ChangeReturn ==
    /\ changeCall.called
    /\ changeCall' = NoChangeCall
    /\ UNCHANGED <<compareVars, scoreCur, scorePrev, resizeCall, pixelCall, thresholdCalls, maskCall, regionCall, perceptualCall, contourCalls, boundCall, comparisons, sensitivityCalls, table, sessions>>

NextChange == ChangeCall \/ ChangeReturn

SpecChange == Init /\ [][NextChange]_vars

----------------------------------------------------------------------------
(* compare_images called by several callers at once on one instance, its three    *)
(* analyzers taken in any order. The instance's fields (supported_formats,        *)
(* max_dimension) are written by __init__ only, and the analyzers work on local   *)
(* copies (astype, img_as_float, rgb2gray, Image.fromarray, img1.copy()), so a    *)
(* call's state is its own arguments and locals.                                  *)

\* lines 685-698 on valid inputs: the reconciled and masked pair
ReconciledPair(data1, data2, regions) ==
    LET pair == resize_images_to_match(preprocess_image(data1), preprocess_image(data2))
    IN  IF regions # << >>
        THEN <<apply_ignore_mask(pair[1], regions), apply_ignore_mask(pair[2], regions)>>
        ELSE pair

\* lines 710-746: the result built from the three analyzers' outputs
AssembleResult(diff, perceptual, regions, img) ==
    [difference_score |->
         calculate_difference_score(
             [ok |-> TRUE,
              difference_percentage |-> diff.difference_percentage,
              ssim |-> diff.ssim, mse |-> diff.mse],
             Perc(perceptual.overall_perceptual)),
     metrics |-> diff,
     perceptual |-> perceptual,
     difference_analysis |-> regions,
     dimensions |-> FormatDimensions(img),
     processed |-> TRUE]

\* lines 685-751 in the order of the code, for the values m the perceptual kernels
\* compute on the pair
compare_images(data1, data2, s, regions, m) ==
    LET pair == ReconciledPair(data1, data2, regions)
        diff == calculate_pixel_differences(pair[1], pair[2], s, {})
        perceptual == calculate_perceptual_similarity(m, {})
        analysis == extract_difference_regions(pair[1], pair[2], s, {})
    IN  AssembleResult(diff, perceptual, analysis, pair[1])

\* caller i invokes compare_images; lines 677-698 run (validation, preprocessing,
\* size reconciliation, masks)
StartComparison(i) ==
    /\ comparisons[i].state = "idle"
    /\ \E c \in ConcurrentCalls :
          LET pair == ReconciledPair(c[1], c[2], c[4])
          IN  \E m \in SubMetrics(pair[1], pair[2]) :
                 comparisons' = [comparisons EXCEPT ![i] =
                     [NoComparison EXCEPT !.state = "running",
                                          !.image1_data = c[1], !.image2_data = c[2],
                                          !.sensitivity = c[3], !.ignore_regions = c[4],
                                          !.kernels = m,
                                          !.img1 = pair[1], !.img2 = pair[2],
                                          !.pending = Analyzers,
                                          !.sequential = compare_images(c[1], c[2], c[3], c[4], m)]]
    /\ UNCHANGED <<compareVars, scoreCur, scorePrev, resizeCall, pixelCall, thresholdCalls, maskCall, regionCall, perceptualCall, contourCalls, boundCall, sensitivityCalls, changeCall, table, sessions>>

\* line 701 with the difference taken in place (img1 -= img2): the first image of
\* the pair is overwritten with the absolute difference
RunPixelMut(i) ==
    /\ "pixel" \in comparisons[i].pending
    /\ LET c == comparisons[i]
       IN  comparisons' = [comparisons EXCEPT
               ![i].diff_result = calculate_pixel_differences(c.img1, c.img2, c.sensitivity, {}),
               ![i].img1 = [c.img1 EXCEPT !.px = [p \in DOMAIN c.img1.px |->
                                                     AbsDiff(c.img1.px[p], c.img2.px[p])]],
               ![i].pending = c.pending \ {"pixel"}]
    /\ UNCHANGED <<compareVars, scoreCur, scorePrev, resizeCall, pixelCall, thresholdCalls, maskCall, regionCall, perceptualCall, contourCalls, boundCall, sensitivityCalls, changeCall, table, sessions>>

\* line 701 of caller i's call: the arrays passed in are read, never written
RunPixel(i) ==
    /\ "pixel" \in comparisons[i].pending
    /\ LET c == comparisons[i]
       IN  comparisons' = [comparisons EXCEPT
               ![i].diff_result = calculate_pixel_differences(c.img1, c.img2, c.sensitivity, {}),
               ![i].pending = c.pending \ {"pixel"}]
    /\ UNCHANGED <<compareVars, scoreCur, scorePrev, resizeCall, pixelCall, thresholdCalls, maskCall, regionCall, perceptualCall, contourCalls, boundCall, sensitivityCalls, changeCall, table, sessions>>

\* line 704 of caller i's call
RunPerceptual(i) ==
    /\ "perceptual" \in comparisons[i].pending
    /\ LET c == comparisons[i]
       IN  comparisons' = [comparisons EXCEPT
               ![i].perceptual_result = calculate_perceptual_similarity(c.kernels, {}),
               ![i].pending = c.pending \ {"perceptual"}]
    /\ UNCHANGED <<compareVars, scoreCur, scorePrev, resizeCall, pixelCall, thresholdCalls, maskCall, regionCall, perceptualCall, contourCalls, boundCall, sensitivityCalls, changeCall, table, sessions>>

\* line 707 of caller i's call
RunRegions(i) ==
    /\ "regions" \in comparisons[i].pending
    /\ LET c == comparisons[i]
       IN  comparisons' = [comparisons EXCEPT
               ![i].difference_regions = extract_difference_regions(c.img1, c.img2, c.sensitivity, {}),
               ![i].pending = c.pending \ {"regions"}]
    /\ UNCHANGED <<compareVars, scoreCur, scorePrev, resizeCall, pixelCall, thresholdCalls, maskCall, regionCall, perceptualCall, contourCalls, boundCall, sensitivityCalls, changeCall, table, sessions>>

\* lines 710-751 of caller i's call, once its three analyzers have returned
FuseComparison(i) ==
    /\ comparisons[i].state = "running"
    /\ comparisons[i].pending = {}
    /\ LET c == comparisons[i]
       IN  comparisons' = [comparisons EXCEPT
               ![i].state = "done",
               ![i].result = AssembleResult(c.diff_result, c.perceptual_result,
                                            c.difference_regions, c.img1)]
    /\ UNCHANGED <<compareVars, scoreCur, scorePrev, resizeCall, pixelCall, thresholdCalls, maskCall, regionCall, perceptualCall, contourCalls, boundCall, sensitivityCalls, changeCall, table, sessions>>

\* caller i takes its result
FinishComparison(i) ==
    /\ comparisons[i].state = "done"
    /\ comparisons' = [comparisons EXCEPT ![i] = NoComparison]
    /\ UNCHANGED <<compareVars, scoreCur, scorePrev, resizeCall, pixelCall, thresholdCalls, maskCall, regionCall, perceptualCall, contourCalls, boundCall, sensitivityCalls, changeCall, table, sessions>>

NextConcurrent ==
    \E i \in Comparisons :
        \/ StartComparison(i)
        \/ RunPixel(i)
        \/ RunPerceptual(i)
        \/ RunRegions(i)
        \/ FuseComparison(i)
        \/ FinishComparison(i)

SpecConcurrent == Init /\ [][NextConcurrent]_vars

----------------------------------------------------------------------------
(* DatabaseService: get_session around store_comparison_result and              *)
(* delete_comparison_result, several sessions open at a time                     *)

\* lines 50-51 entered from line 71: the session is open and the body starts
StoreCall(s) ==
    /\ sessions[s].pc = "idle"
    /\ table.issued < MaxRows
    /\ \E flt \in SessionFaultSets :
          /\ flt \cap {"execute", "delete"} = {}
          /\ sessions' = [sessions EXCEPT ![s] = [NoSession EXCEPT !.pc = "body", !.op = "store",
                                                                   !.faults = flt]]
    /\ UNCHANGED table
    /\ UNCHANGED <<compareVars, scoreCur, scorePrev, resizeCall, pixelCall, thresholdCalls, maskCall, regionCall, perceptualCall, contourCalls, boundCall, comparisons, sensitivityCalls, changeCall>>

\* lines 72-94: add the row, flush (which issues the id), return the id; a failing
\* flush leaves the body with its exception
StoreBody(s) ==
    /\ sessions[s].pc = "body"
    /\ sessions[s].op = "store"
    /\ IF "flush" \in sessions[s].faults
       THEN /\ sessions' = [sessions EXCEPT ![s].pc = "except", ![s].raised = "flush",
                                            ![s].first_raised = "flush"]
            /\ UNCHANGED table
       ELSE /\ table' = [table EXCEPT !.issued = @ + 1]
            /\ sessions' = [sessions EXCEPT ![s].pc = "commit", ![s].id = table.issued + 1,
                                            ![s].inserts = {table.issued + 1},
                                            ![s].value = ToString(table.issued + 1)]
    /\ UNCHANGED <<compareVars, scoreCur, scorePrev, resizeCall, pixelCall, thresholdCalls, maskCall, regionCall, perceptualCall, contourCalls, boundCall, comparisons, sensitivityCalls, changeCall>>

\* lines 50-51 entered from line 166, for any comparison_id
DeleteCall(s) ==
    /\ sessions[s].pc = "idle"
    /\ \E flt \in SessionFaultSets, comparison_id \in 1 .. MaxRows :
          /\ "flush" \notin flt
          /\ sessions' = [sessions EXCEPT ![s] = [NoSession EXCEPT !.pc = "body", !.op = "delete",
                                                                   !.faults = flt,
                                                                   !.id = comparison_id]]
    /\ UNCHANGED table
    /\ UNCHANGED <<compareVars, scoreCur, scorePrev, resizeCall, pixelCall, thresholdCalls, maskCall, regionCall, perceptualCall, contourCalls, boundCall, comparisons, sensitivityCalls, changeCall>>

\* lines 167-179: select the row; mark it deleted and return True, or return False
DeleteBody(s) ==
    /\ sessions[s].pc = "body"
    /\ sessions[s].op = "delete"
    /\ LET found == sessions[s].id \in table.rows
           failing == IF "execute" \in sessions[s].faults THEN "execute"
                      ELSE IF found /\ "delete" \in sessions[s].faults THEN "delete"
                      ELSE ""
       IN  IF failing # ""
           THEN sessions' = [sessions EXCEPT ![s].pc = "except", ![s].raised = failing,
                                             ![s].first_raised = failing]
           ELSE sessions' = [sessions EXCEPT ![s].pc = "commit", ![s].found = found,
                                             ![s].deletes = IF found THEN {sessions[s].id} ELSE {},
                                             ![s].value = IF found THEN "True" ELSE "False"]
    /\ UNCHANGED table
    /\ UNCHANGED <<compareVars, scoreCur, scorePrev, resizeCall, pixelCall, thresholdCalls, maskCall, regionCall, perceptualCall, contourCalls, boundCall, comparisons, sensitivityCalls, changeCall>>

\* line 53 reached on every exit of the body, after an exception too
CommitMut(s) ==
    /\ sessions[s].pc \in {"commit", "except"}
    /\ table' = [table EXCEPT !.rows = (@ \cup sessions[s].inserts) \ sessions[s].deletes]
    /\ sessions' = [sessions EXCEPT ![s].pc = "close", ![s].commit_called = TRUE,
                                    ![s].committed = TRUE,
                                    ![s].written = sessions[s].inserts,
                                    ![s].erased = sessions[s].deletes \cap table.rows,
                                    ![s].inserts = {}, ![s].deletes = {}]
    /\ UNCHANGED <<compareVars, scoreCur, scorePrev, resizeCall, pixelCall, thresholdCalls, maskCall, regionCall, perceptualCall, contourCalls, boundCall, comparisons, sensitivityCalls, changeCall>>

\* line 53: the body has finished without an exception; commit writes the unit of
\* work to the table, or raises and writes nothing
Commit(s) ==
    /\ sessions[s].pc = "commit"
    /\ IF "commit" \in sessions[s].faults
       THEN /\ sessions' = [sessions EXCEPT ![s].pc = "except", ![s].commit_called = TRUE,
                                            ![s].raised = "commit", ![s].first_raised = "commit"]
            /\ UNCHANGED table
       ELSE /\ table' = [table EXCEPT !.rows = (@ \cup sessions[s].inserts) \ sessions[s].deletes]
            /\ sessions' = [sessions EXCEPT ![s].pc = "close", ![s].commit_called = TRUE,
                                            ![s].committed = TRUE,
                                            ![s].written = sessions[s].inserts,
                                            ![s].erased = sessions[s].deletes \cap table.rows,
                                            ![s].inserts = {}, ![s].deletes = {}]
    /\ UNCHANGED <<compareVars, scoreCur, scorePrev, resizeCall, pixelCall, thresholdCalls, maskCall, regionCall, perceptualCall, contourCalls, boundCall, comparisons, sensitivityCalls, changeCall>>

\* lines 54-56: the exception of the body or of commit is caught, the unit of work
\* is discarded and the exception raised again; a failing rollback leaves with its
\* own exception instead
Rollback(s) ==
    /\ sessions[s].pc = "except"
    /\ sessions' = [sessions EXCEPT ![s].pc = "close", ![s].rollback_called = TRUE,
                                    ![s].inserts = {}, ![s].deletes = {},
                                    ![s].raised = IF "rollback" \in sessions[s].faults
                                                  THEN "rollback" ELSE @]
    /\ UNCHANGED table
    /\ UNCHANGED <<compareVars, scoreCur, scorePrev, resizeCall, pixelCall, thresholdCalls, maskCall, regionCall, perceptualCall, contourCalls, boundCall, comparisons, sensitivityCalls, changeCall>>

\* lines 57-58 and the handlers of lines 96-98 and 181-183, which log and raise
\* again: the session is closed and the caller has the value or the exception
Close(s) ==
    /\ sessions[s].pc = "close"
    /\ sessions' = [sessions EXCEPT ![s].pc = "done", ![s].closed = TRUE,
                                    ![s].inserts = {}, ![s].deletes = {},
                                    ![s].value = IF sessions[s].raised # "" THEN "none" ELSE @]
    /\ UNCHANGED table
    /\ UNCHANGED <<compareVars, scoreCur, scorePrev, resizeCall, pixelCall, thresholdCalls, maskCall, regionCall, perceptualCall, contourCalls, boundCall, comparisons, sensitivityCalls, changeCall>>

\* the caller goes on; the session object is gone
SessionReturn(s) ==
    /\ sessions[s].pc = "done"
    /\ sessions' = [sessions EXCEPT ![s] = NoSession]
    /\ UNCHANGED table
    /\ UNCHANGED <<compareVars, scoreCur, scorePrev, resizeCall, pixelCall, thresholdCalls, maskCall, regionCall, perceptualCall, contourCalls, boundCall, comparisons, sensitivityCalls, changeCall>>

NextSessions ==
    \E s \in Sessions :
        \/ StoreCall(s)
        \/ StoreBody(s)
        \/ DeleteCall(s)
        \/ DeleteBody(s)
        \/ Commit(s)
        \/ Rollback(s)
        \/ Close(s)
        \/ SessionReturn(s)

SpecSessions == Init /\ [][NextSessions]_vars

----------------------------------------------------------------------------
(* Properties *)

\* C1: every value calculate_difference_score returns lies in [0, 100], for every
\* combination of difference_percentage, ssim and mse, with or without a perceptual
\* result, all-zero and all-max metric sets and the internal-failure path included.
C1_ScoreInRange ==
    /\ scoreCur.called => 0 <= scoreCur.score /\ scoreCur.score <= FullScore
    /\ scorePrev.called => 0 <= scorePrev.score /\ scorePrev.score <= FullScore

\* a call with the all-max metric set (ssim -1) and a zero perceptual similarity, whose
\* weighted sum is 125 and whose result is 100
C1_Witness ==
    /\ scoreCur.called
    /\ scoreCur.comparison_result =
          [ok |-> TRUE, difference_percentage |-> 100000, ssim |-> -1000, mse |-> 1000000]
    /\ scoreCur.perceptual_result = Perc(0)
    /\ scoreCur.score = FullScore

\* metric set a is nowhere larger than metric set b in difference_percentage,
\* (1 - ssim) and mse
NoLarger(a, b) ==
    /\ a.ok /\ b.ok
    /\ a.difference_percentage <= b.difference_percentage
    /\ 1000 - a.ssim <= 1000 - b.ssim
    /\ a.mse <= b.mse

\* C2: calculate_difference_score is monotonic: of two calls with the same perceptual
\* argument, the one whose metric set is larger in difference_percentage, (1 - ssim)
\* or mse (and smaller in none) never scores lower.
C2_Monotonic ==
    (/\ scorePrev.called /\ scoreCur.called
     /\ scorePrev.perceptual_result = scoreCur.perceptual_result
     /\ NoLarger(scorePrev.comparison_result, scoreCur.comparison_result))
    => scorePrev.score <= scoreCur.score

\* two calls with a perceptual result that differ only in ssim (0.7 against 0.0),
\* the second scoring strictly higher
C2_Witness ==
    /\ scorePrev.called /\ scoreCur.called
    /\ scorePrev.perceptual_result = Perc(500) /\ scoreCur.perceptual_result = Perc(500)
    /\ scorePrev.comparison_result =
          [ok |-> TRUE, difference_percentage |-> 25000, ssim |-> 700, mse |-> 50000]
    /\ scoreCur.comparison_result =
          [ok |-> TRUE, difference_percentage |-> 25000, ssim |-> 0, mse |-> 50000]
    /\ scorePrev.score < scoreCur.score

PerfectMatch == [ok |-> TRUE, difference_percentage |-> 0, ssim |-> 1000, mse |-> 0]

CompleteDifference == [ok |-> TRUE, difference_percentage |-> 100000, ssim |-> 0, mse |-> 1000000]

\* C3: calculate_difference_score equals the reference fusion: with perceptual data
\* clamp(0.4 dp + 0.25 (1 - ssim) 100 + 0.25 (1 - overall_perceptual) 100
\* + 0.1 min(mse 1000, 100)), without it clamp(0.6 dp + 0.3 (1 - ssim) 100
\* + 0.1 min(mse 1000, 100)); a perfect match scores below 5 and a complete
\* difference above 90.
C3_ReferenceFusion ==
    (scoreCur.called /\ scoreCur.comparison_result.ok) =>
        LET cr == scoreCur.comparison_result
            pr == scoreCur.perceptual_result
            dp == cr.difference_percentage
            ss == (1000 - cr.ssim) * 100
            ms == IF cr.mse < 100000 THEN cr.mse ELSE 100000
            ps == (1000 - pr.overall) * 100
            clamp(x) == IF x < 0 THEN 0 ELSE IF x > FullScore THEN FullScore ELSE x
        IN  /\ pr.kind = "dict" => scoreCur.score = clamp(40 * dp + 25 * ss + 25 * ps + 10 * ms)
            /\ pr.kind = "none" => scoreCur.score = clamp(60 * dp + 30 * ss + 10 * ms)
            /\ (cr = PerfectMatch /\ pr \in {PercNone, Perc(1000)}) => scoreCur.score < 500000
            /\ (cr = CompleteDifference /\ pr \in {PercNone, Perc(0)}) => scoreCur.score > 9000000

\* a complete difference fused with a perceptual result of similarity 0
C3_Witness ==
    /\ scoreCur.called
    /\ scoreCur.comparison_result = CompleteDifference
    /\ scoreCur.perceptual_result = Perc(0)
    /\ scoreCur.score > 9000000

Finished == pc \in {"done", "raised"}

\* the buffer is one that does not validate (Image.open or verify raises on it)
Unreadable(data) == data.kind = "garbage"

\* C4: compare_images fails with 'Invalid first image' whenever the first buffer does
\* not validate (also when the second does not either), and with 'Invalid second
\* image' when the first validates and the second does not.
C4_ValidationErrors ==
    Finished =>
        /\ Unreadable(image1_data) => pc = "raised" /\ error = "Invalid first image"
        /\ (~Unreadable(image1_data) /\ Unreadable(image2_data)) =>
               pc = "raised" /\ error = "Invalid second image"

\* a call with two unreadable buffers has failed, naming the first
C4_Witness ==
    /\ pc = "raised"
    /\ Unreadable(image1_data) /\ Unreadable(image2_data)
    /\ error = "Invalid first image"

LaterSteps ==
    {"preprocess1", "preprocess2", "resize", "mask", "pixel", "perceptual", "regions", "score"}

\* C5: in every run of compare_images both validations complete before any
\* preprocessing, size reconciliation, masking or analyzer step starts, and when
\* either input is rejected none of those steps is executed.
C5_ValidationFirst ==
    \A i \in 1 .. Len(trace) :
        trace[i] \in LaterSteps =>
            /\ ~Unreadable(image1_data) /\ ~Unreadable(image2_data)
            /\ \E j \in 1 .. i - 1 : trace[j] = "validate1"
            /\ \E k \in 1 .. i - 1 : trace[k] = "validate2"

\* a run that went through masking and all analyzers after the two validations
C5_Witness ==
    /\ pc = "done"
    /\ Len(trace) = 10
    /\ trace[1] = "validate1" /\ trace[2] = "validate2" /\ trace[6] = "mask"

\* C6: every failure of compare_images caused by one of the two input images (an
\* image that passes validate_image but fails in preprocess_image included) is
\* reported as an error that identifies whether the first or the second input failed.
C6_ErrorNamesInput ==
    (pc = "raised" /\ (image1_data.kind # "image" \/ image2_data.kind # "image")) =>
        error \in {"Invalid first image", "Invalid second image"}

\* C7: resize_images_to_match gives both outputs the shape (min(h1,h2), min(w1,w2)),
\* and returns the two inputs unchanged when their shapes already match.
C7_ResizeShape ==
    resizeCall.called =>
        LET a == resizeCall.in1
            b == resizeCall.in2
            th == IF a.h < b.h THEN a.h ELSE b.h
            tw == IF a.w < b.w THEN a.w ELSE b.w
        IN  /\ resizeCall.out1.h = th /\ resizeCall.out1.w = tw
            /\ resizeCall.out2.h = th /\ resizeCall.out2.w = tw
            /\ DOMAIN resizeCall.out1.px = Pos(th, tw)
            /\ DOMAIN resizeCall.out2.px = Pos(th, tw)
            /\ (a.h = b.h /\ a.w = b.w) =>
                   resizeCall.out1 = a /\ resizeCall.out2 = b

\* a call whose first input is the shorter and the wider of the two
C7_Witness ==
    /\ resizeCall.called
    /\ resizeCall.in1.h < resizeCall.in2.h
    /\ resizeCall.in1.w > resizeCall.in2.w
    /\ resizeCall.out1.h = resizeCall.in1.h
    /\ resizeCall.out1.w = resizeCall.in2.w

\* C8: whenever an analyzer of compare_images (pixel difference, perceptual
\* similarity, region extraction) is about to start, the two images have the same
\* height and width, whatever the input sizes and also after ignore masks.
C8_SameShapeAtAnalyzers ==
    pc \in {"pixel", "perceptual", "regions"} =>
        /\ img1.h = img2.h /\ img1.w = img2.w
        /\ DOMAIN img1.px = Pos(img1.h, img1.w)
        /\ DOMAIN img2.px = Pos(img2.h, img2.w)

\* the pixel-difference analyzer is about to start on inputs of different height and
\* width, after ignore masks were applied
C8_Witness ==
    /\ pc = "pixel"
    /\ image1_data.h < image2_data.h /\ image1_data.w > image2_data.w
    /\ ignore_regions # << >>
    /\ img1.h = image1_data.h /\ img1.w = image2_data.w

\* C9: for every image A and every sensitivity, comparing A against a byte-identical
\* copy yields difference_percentage < 1.0, ssim > 0.99 and mse < 0.001.
C9_IdenticalCopy ==
    (Finished /\ image1_data.kind = "image" /\ image2_data = image1_data) =>
        /\ pc = "done"
        /\ result.metrics.difference_percentage < 1000
        /\ result.metrics.ssim > 990
        /\ result.metrics.mse < 1000

\* the array is of one colour
IsSolid(a, c) == \A p \in DOMAIN a.px : a.px[p] = c

\* C10: calculate_pixel_differences at its default sensitivity counts every pixel
\* that is pure red in one image and pure blue in the other as changed: a solid red
\* against a solid blue image of the same size yields difference_percentage > 50,
\* and the red fixture against the red fixture with the blue square yields
\* 10 < difference_percentage < 40 (the fixtures at the model's side MaxSide).
C10_RedBlueChanged ==
    (/\ pixelCall.called
     /\ pixelCall.sensitivity = DefaultSensitivity
     /\ ~pixelCall.out.raised
     /\ pixelCall.in1.h = pixelCall.in2.h /\ pixelCall.in1.w = pixelCall.in2.w) =>
        LET a == pixelCall.in1
            b == pixelCall.in2
            dp == pixelCall.out.difference_percentage
        IN  /\ \A p \in DOMAIN a.px :
                   <<a.px[p], b.px[p]>> \in {<<Red, Blue>>, <<Blue, Red>>} =>
                       p \in pixelCall.out.binary_mask
            /\ (IsSolid(a, Red) /\ IsSolid(b, Blue)) => dp > 50000
            /\ (IsSolid(a, Red) /\ b = preprocess_image(PartialDiff(MaxSide))) =>
                   10000 < dp /\ dp < 40000

\* C11: the binarization threshold is clamp(255 - sensitivity / 100 * 254, 1, 254),
\* taken to its integer part by int(): it lies in [1, 254] for every sensitivity, also
\* outside [1, 100]; a larger sensitivity never gives a larger threshold; the
\* pixel-difference analyzer and the changed-objects extractor compute the same value.
C11_Threshold ==
    /\ \A i \in 1 .. Len(thresholdCalls) :
          LET c == thresholdCalls[i]
              v == 25500 - 254 * c.sensitivity
              clamped == IF v < 100 THEN 100 ELSE IF v > 25400 THEN 25400 ELSE v
          IN  /\ 1 <= c.pixel /\ c.pixel <= 254
              /\ 100 * c.pixel <= clamped /\ clamped < 100 * (c.pixel + 1)
              /\ c.objects = c.pixel
    /\ \A i, j \in 1 .. Len(thresholdCalls) :
          thresholdCalls[i].sensitivity <= thresholdCalls[j].sensitivity =>
              thresholdCalls[i].pixel >= thresholdCalls[j].pixel

\* an evaluation inside the range (sensitivity 30, threshold 178) followed by one
\* above it (sensitivity 150, where line 539 gives -126 and the clamp 1)
C11_Witness ==
    /\ Len(thresholdCalls) = 2
    /\ thresholdCalls[1].sensitivity = 30 /\ thresholdCalls[1].pixel = 178
    /\ thresholdCalls[2].sensitivity = 150 /\ thresholdCalls[2].pixel = 1
    /\ thresholdCalls[2].objects = 1

\* C12: every result of calculate_pixel_differences has total_pixels > 0,
\* 0 <= changed_pixels <= total_pixels, difference_percentage = 100 * changed_pixels
\* / total_pixels and so within [0, 100], with total_pixels the height times the
\* width of the reconciled images.
C12_PixelCounts ==
    (pixelCall.called /\ ~pixelCall.out.raised) =>
        LET out == pixelCall.out
            th == IF pixelCall.in1.h < pixelCall.in2.h THEN pixelCall.in1.h ELSE pixelCall.in2.h
            tw == IF pixelCall.in1.w < pixelCall.in2.w THEN pixelCall.in1.w ELSE pixelCall.in2.w
        IN  /\ out.total_pixels > 0
            /\ out.total_pixels = th * tw
            /\ 0 <= out.changed_pixels /\ out.changed_pixels <= out.total_pixels
            /\ out.difference_percentage * out.total_pixels <= 100000 * out.changed_pixels
            /\ 100000 * out.changed_pixels < (out.difference_percentage + 1) * out.total_pixels
            /\ 0 <= out.difference_percentage /\ out.difference_percentage <= 100000

\* a call on images of different sizes in which some, not all, pixels are counted
C12_Witness ==
    /\ pixelCall.called /\ ~pixelCall.out.raised
    /\ pixelCall.in1.h # pixelCall.in2.h
    /\ 0 < pixelCall.out.changed_pixels
    /\ pixelCall.out.changed_pixels < pixelCall.out.total_pixels

\* the positions at which the two inputs differ once they are preprocessed and
\* brought to the same size (before any mask)
DifferingArea ==
    LET pair == resize_images_to_match(preprocess_image(image1_data), preprocess_image(image2_data))
    IN  DiffPositions(pair[1], pair[2])

\* the region is a rectangle whose columns x .. x + width - 1 and rows
\* y .. y + height - 1 contain every position of D
Covers(region, D) ==
    /\ region.type = "rectangle" /\ region.ok
    /\ \A p \in D : /\ region.x <= p[2] /\ p[2] < region.x + region.width
                     /\ region.y <= p[1] /\ p[1] < region.y + region.height

\* no pixel of D is counted as changed, and neither the overall bounding box nor the
\* bounding box of any contour found on the analysed images meets D
Uncounted(D) ==
    /\ result.metrics.binary_mask \cap D = {}
    /\ result.difference_analysis.difference_bbox = << >>
    /\ \A k \in 1 .. Len(Contours(img1, img2)) :
          LET bb == Contours(img1, img2)[k].bbox
          IN  \A p \in D : ~(/\ bb[1] <= p[2] /\ p[2] < bb[1] + bb[3]
                               /\ bb[2] <= p[1] /\ p[1] < bb[2] + bb[4])
    /\ \A k \in 1 .. Len(result.difference_analysis.different_regions) :
          \E j \in 1 .. Len(Contours(img1, img2)) :
              Contours(img1, img2)[j].bbox = result.difference_analysis.different_regions[k].bbox

\* C13 as stated: when compare_images is given a rectangle ignore region that fully
\* covers the only area in which the two images differ, no pixel of that area is
\* counted in changed_pixels / difference_percentage and no extracted bounding box
\* intersects it.
C13_CoveredAreaIgnored ==
    (/\ pc = "done"
     /\ DifferingArea # {}
     /\ \E k \in 1 .. Len(ignore_regions) : Covers(ignore_regions[k], DifferingArea))
    => Uncounted(DifferingArea)

\* C13 amended: the same, for a list of ignore regions all of which
\* apply_ignore_mask can process; when one of them cannot be processed no region
\* of the list is applied and the images are analysed unmasked.
C13_CoveredAreaIgnoredWhenApplied ==
    (/\ pc = "done"
     /\ DifferingArea # {}
     /\ \E k \in 1 .. Len(ignore_regions) : Covers(ignore_regions[k], DifferingArea))
    => IF \E k \in 1 .. Len(ignore_regions) : RegionRaises(ignore_regions[k])
       THEN /\ img1.px = resize_images_to_match(preprocess_image(image1_data),
                                                preprocess_image(image2_data))[1].px
            /\ result.difference_analysis.has_differences
       ELSE /\ Uncounted(DifferingArea)
            /\ result.metrics.changed_pixels = 0

\* the red fixture against the one with the blue rectangle, at the highest
\* sensitivity, with the rectangle covered: nothing is counted
C13_Witness ==
    /\ pc = "done"
    /\ image1_data = Solid(Red, MaxSide, MaxSide)
    /\ image2_data = PartialDiff(MaxSide)
    /\ sensitivity = 100
    /\ ignore_regions = << CoverRect >>
    /\ result.metrics.changed_pixels = 0
    /\ ~result.difference_analysis.has_differences

\* C14: apply_ignore_mask never raises: whatever the coordinates (negative, beyond
\* the image, zero or negative extent) the clamped rectangle has 0 <= x <= W - 1,
\* 0 <= y <= H - 1, 0 <= width <= W - x, 0 <= height <= H - y; when processing any
\* region fails the returned image is the original input with none of the regions
\* applied, the ones before the failing region included; the input image itself is
\* never modified.
C14_MaskNeverRaises ==
    maskCall.called =>
        LET image == maskCall.image
            rl == maskCall.ignore_regions
        IN  /\ \A k \in 1 .. Len(rl) :
                  (rl[k].type = "rectangle" /\ rl[k].ok) =>
                      LET r == ClampedRect(rl[k], image.h, image.w)
                      IN  /\ 0 <= r.x /\ r.x <= image.w - 1
                          /\ 0 <= r.y /\ r.y <= image.h - 1
                          /\ 0 <= r.width /\ r.width <= image.w - r.x
                          /\ 0 <= r.height /\ r.height <= image.h - r.y
            /\ maskCall.out.h = image.h /\ maskCall.out.w = image.w
            /\ DOMAIN maskCall.out.px = Pos(image.h, image.w)
            /\ (\E k \in 1 .. Len(rl) : rl[k].type = "rectangle" /\ ~rl[k].ok) =>
                   maskCall.out = image
            /\ maskCall.image_after = image

\* a call whose second region cannot be processed: the rectangle before it, which
\* lies over non-black pixels, is not in the returned image
C14_Witness ==
    /\ maskCall.called
    /\ maskCall.image = preprocess_image(PartialDiff(MaxSide))
    /\ maskCall.ignore_regions = << CoverRect, Malformed >>
    /\ maskCall.out = maskCall.image
    /\ \A p \in DOMAIN maskCall.out.px : maskCall.out.px[p] # Black

\* the region is one that apply_ignore_mask skips: its tag is neither 'rectangle'
\* nor 'freeform', or it is a freeform region with fewer than 3 points
Skipped(region) ==
    \/ region.type \notin {"rectangle", "freeform"}
    \/ region.type = "freeform" /\ Len(region.path) < 3

\* C15: apply_ignore_mask leaves the image unchanged for every region whose tag is
\* neither 'rectangle' nor 'freeform' and for every freeform region with fewer than 3
\* points; such regions do not keep the later regions of the list from being
\* applied.
C15_SkippedRegions ==
    (maskCall.called /\ \A k \in 1 .. Len(maskCall.ignore_regions) :
                            Skipped(maskCall.ignore_regions[k]) \/ maskCall.ignore_regions[k].ok) =>
        LET image == maskCall.image
            rl == maskCall.ignore_regions
            drawn == {k \in 1 .. Len(rl) : ~Skipped(rl[k])}
            painted == UNION {IF rl[k].type = "rectangle"
                              THEN RectangleArea(rl[k], image.h, image.w)
                              ELSE FreeformArea(rl[k], image.h, image.w) : k \in drawn}
        IN  /\ drawn = {} => maskCall.out = image
            /\ \A p \in Pos(image.h, image.w) :
                   maskCall.out.px[p] = IF p \in painted THEN <<0, 0, 0>> ELSE image.px[p]

\* a list that starts with a region of an unknown tag and a freeform region of two
\* points and ends with a rectangle: the first two leave their pixels alone, the
\* rectangle is painted
C15_Witness ==
    /\ maskCall.called
    /\ maskCall.image = preprocess_image(Solid(Red, MaxSide, MaxSide))
    /\ Len(maskCall.ignore_regions) = 3
    /\ maskCall.ignore_regions[1].type = "ellipse"
    /\ maskCall.ignore_regions[2].type = "freeform" /\ Len(maskCall.ignore_regions[2].path) = 2
    /\ maskCall.ignore_regions[3] = Rect(-2, 5, 20, 1)
    /\ maskCall.out.px[<<0, 0>>] = Red
    /\ maskCall.out.px[<<5, 0>>] = Black

\* the running call has executed the step
InTrace(step) == \E i \in 1 .. Len(trace) : trace[i] = step

\* C16: compare_images is atomic: a call either returns a complete result
\* (difference_score, metrics, visualizations, difference_analysis, image_info) or
\* raises an error and returns nothing; a failure of the pixel-difference metric
\* computation (MSE, SSIM, mask, percentage) always propagates and is never replaced
\* by default values.
C16_Atomic ==
    /\ pc # "done" => result = NoResult
    /\ pc = "raised" => error # ""
    /\ pc = "done" =>
          /\ error = ""
          /\ 0 <= result.difference_score /\ result.difference_score <= FullScore
          /\ ~result.metrics.raised
          /\ result.metrics.total_pixels = img1.h * img1.w /\ result.metrics.total_pixels > 0
          /\ result.metrics.mse >= 0 /\ result.metrics.ssim <= 1000
          /\ result.metrics.heatmap \in {"", "png"} /\ result.metrics.overlay \in {"", "png"}
          /\ DOMAIN result.perceptual = DOMAIN NoPerceptual
          /\ DOMAIN result.difference_analysis = DOMAIN NoRegions
          /\ result.dimensions = FormatDimensions(img1) /\ result.processed
    /\ (InTrace("pixel") /\ (faults \cap MetricFaults # {} \/ SsimRaises(img1, img2))) =>
          /\ pc = "raised"
          /\ diff_result = NoDiff

\* a call in which structural_similarity raised: the call is over, with an error and
\* without a result, and no later step ran
C16_Witness ==
    /\ pc = "raised"
    /\ faults = {"ssim"}
    /\ error = "ssim failed"
    /\ trace[Len(trace)] = "pixel"
    /\ result = NoResult

C18_AnyStagePropagates ==
    (InTrace("pixel") /\ faults \cap (MetricFaults \cup VisualizationFaults) # {}) =>
        pc = "raised"

\* C18 amended: an exception in stages 1 to 5 aborts the whole comparison and is
\* propagated; an exception in heatmap or overlay rendering is caught where it is
\* raised, the visualization is the empty string, the metrics are the ones computed
\* and the comparison goes on.
C18_MetricStagesPropagate ==
    /\ (InTrace("pixel") /\ faults \cap MetricFaults # {}) => pc = "raised"
    /\ (InTrace("pixel") /\ faults \cap VisualizationFaults # {} /\ ~SsimRaises(img1, img2)) =>
          /\ pc # "raised"
          /\ diff_result.heatmap = "" <=> "heatmap" \in faults
          /\ diff_result.overlay = "" <=> "overlay" \in faults
          /\ diff_result.total_pixels = img1.h * img1.w
          /\ diff_result.changed_pixels = Cardinality(diff_result.binary_mask)
          /\ pc = "done" => result.metrics = diff_result

\* a call during which the heatmap rendering raised: it returned, with an empty
\* heatmap, an overlay and the metrics
C18_Witness ==
    /\ pc = "done"
    /\ faults = {"heatmap"}
    /\ image1_data = Solid(Red, MaxSide, MaxSide)
    /\ image2_data = PartialDiff(MaxSide)
    /\ sensitivity = 100
    /\ result.metrics.heatmap = ""
    /\ result.metrics.overlay = "png"
    /\ result.metrics.changed_pixels > 0

\* the degenerate result: has_differences = false, an empty region list and empty
\* artifact strings
Degenerate(out) ==
    /\ ~out.has_differences
    /\ out.different_regions = << >> /\ out.num_different_regions = 0
    /\ out.enhanced_diff_b64 = "" /\ out.raw_diff_b64 = "" /\ out.changed_objects_b64 = ""

Reported(out) ==
    <<out.texture_similarity, out.color_similarity, out.edge_similarity, out.phash_similarity>>

\* overall_perceptual is the arithmetic mean of the four reported values (to the
\* model's precision of 1/1000)
IsMean(out) ==
    LET sum == Reported(out)[1] + Reported(out)[2] + Reported(out)[3] + Reported(out)[4]
    IN  4 * out.overall_perceptual <= sum /\ sum < 4 * out.overall_perceptual + 4

\* C20 as stated: each of the four perceptual sub-metrics (texture, colour, edge,
\* perceptual hash) degrades to 0.0 on its own internal failure: the failure of one
\* sub-metric sets only that sub-metric to 0.0, the other three keep their computed
\* values, and overall_perceptual is the arithmetic mean of the four reported values.
C20_EachDegradesAlone ==
    (perceptualCall.called /\ "rgb2gray" \notin perceptualCall.faults) =>
        /\ \A i \in 1 .. 4 :
              Reported(perceptualCall.out)[i] =
                  IF <<"texture", "color", "edge", "phash">>[i] \in perceptualCall.faults
                  THEN 0 ELSE perceptualCall.values[i]
        /\ IsMean(perceptualCall.out)

\* C20 amended: the colour, edge and perceptual-hash sub-metrics each degrade to 0.0
\* on their own failure, the others keeping their computed values; a failure of the
\* texture computation (or of the grayscale conversion before it) sets all four
\* sub-metrics and overall_perceptual to 0.0; in every case overall_perceptual is the
\* arithmetic mean of the four reported values.
C20_TextureFailureZeroesAll ==
    perceptualCall.called =>
        /\ IF perceptualCall.faults \cap {"rgb2gray", "texture"} # {}
           THEN Reported(perceptualCall.out) = <<0, 0, 0, 0>>
                /\ perceptualCall.out.overall_perceptual = 0
           ELSE /\ perceptualCall.out.texture_similarity = perceptualCall.values[1]
                /\ \A i \in 2 .. 4 :
                      Reported(perceptualCall.out)[i] =
                          IF <<"texture", "color", "edge", "phash">>[i] \in perceptualCall.faults
                          THEN 0 ELSE perceptualCall.values[i]
        /\ IsMean(perceptualCall.out)

\* a call in which only the texture computation raised while the other three kernels
\* would have reported 1.0: everything is 0.0
C20_Witness ==
    /\ perceptualCall.called
    /\ perceptualCall.faults = {"texture"}
    /\ perceptualCall.values = <<1000, 1000, 1000, 1000>>
    /\ perceptualCall.out.color_similarity = 0
    /\ perceptualCall.out.overall_perceptual = 0

\* C21: the region list of the contour stage holds only regions with area > 100, is
\* sorted by area in descending order with equal-area regions in contour order, has
\* at most 10 entries, and num_different_regions is its length; two calls on the
\* same contours give the same count, the same bounding boxes and the same order.
C21_RegionList ==
    /\ \A c \in 1 .. Len(contourCalls) :
          LET call == contourCalls[c]
              regions == call.different_regions
          IN  /\ \A i \in 1 .. Len(regions) :
                    /\ regions[i].area > 100
                    /\ \E k \in 1 .. Len(call.contours) : call.contours[k] = regions[i]
              /\ \A i \in 1 .. Len(regions), j \in 1 .. Len(regions) :
                    i < j => \/ regions[i].area > regions[j].area
                             \/ /\ regions[i].area = regions[j].area
                                /\ regions[i].id < regions[j].id
              /\ Len(regions) <= 10
              /\ call.num_different_regions = Len(regions)
    /\ (Len(contourCalls) = 2 /\ contourCalls[1].contours = contourCalls[2].contours)
          => /\ contourCalls[1].num_different_regions = contourCalls[2].num_different_regions
             /\ [i \in 1 .. Len(contourCalls[1].different_regions) |->
                    contourCalls[1].different_regions[i].bbox]
                = [i \in 1 .. Len(contourCalls[2].different_regions) |->
                      contourCalls[2].different_regions[i].bbox]

\* two calls on the same list of contours, one of them not above the minimum and
\* more than 10 above it with areas that repeat: 10 regions are returned
C21_Witness ==
    /\ Len(contourCalls) = 2
    /\ contourCalls[1].contours = contourCalls[2].contours
    /\ Len(contourCalls[2].contours) = MaxContours
    /\ \E k \in 1 .. MaxContours : contourCalls[2].contours[k].area <= 100
    /\ Cardinality({k \in 1 .. MaxContours : contourCalls[2].contours[k].area > 100}) > 10
    /\ contourCalls[2].num_different_regions = 10
    /\ \E i \in 1 .. 9 : contourCalls[2].different_regions[i].area
                             = contourCalls[2].different_regions[i + 1].area

\* C22: preprocess_image bounds the size: the output's longer side is at most 2048;
\* when the input's longer side exceeds 2048 the output's longer side is 2048 and
\* the shorter side is the input's scaled by the same ratio (2048 / longer side,
\* whole pixels); an input with both sides <= 2048 keeps its dimensions.
C22_BoundedSize ==
    boundCall.called =>
        LET longer == Max(boundCall.width, boundCall.height)
            shorter == Min(boundCall.width, boundCall.height)
            out_longer == Max(boundCall.shape[1], boundCall.shape[2])
            out_shorter == Min(boundCall.shape[1], boundCall.shape[2])
        IN  /\ out_longer <= 2048
            /\ longer > 2048 =>
                  /\ out_longer = 2048
                  /\ out_shorter * longer <= shorter * 2048
                  /\ shorter * 2048 < (out_shorter + 1) * longer
            /\ longer <= 2048 => boundCall.shape = <<boundCall.height, boundCall.width>>

\* whether compare_images resized an input: a bounding downscale in preprocess_image
\* or a size reconciliation in resize_images_to_match
ResizingOccurred ==
    \/ Max(image1_data.w, image1_data.h) > max_dimension
    \/ Max(image2_data.w, image2_data.h) > max_dimension
    \/ <<image1_data.h, image1_data.w>> # <<image2_data.h, image2_data.w>>

\* the final width and height of a call whose inputs are within max_dimension
FinalSize == <<Min(image1_data.w, image2_data.w), Min(image1_data.h, image2_data.h)>>

\* C23 as stated: the image_info of every result reports the final width and height
\* as "{width}x{height}" and a flag that is true exactly when resizing occurred.
C23_FlagTellsResizing ==
    pc = "done" =>
        /\ result.dimensions = ToString(FinalSize[1]) \o "x" \o ToString(FinalSize[2])
        /\ result.processed <=> ResizingOccurred

\* C23, amended: the image_info of every result reports the final width and height
\* of the reconciled images as "{width}x{height}", and its flag is true in every
\* result, whether or not an input was resized.
C23_FlagAlwaysTrue ==
    pc = "done" =>
        /\ result.dimensions = ToString(FinalSize[1]) \o "x" \o ToString(FinalSize[2])
        /\ result.processed

\* a result for two inputs of one size, 8 wide and 7 high, neither of them resized:
\* the flag is set
C23_Witness ==
    /\ pc = "done"
    /\ <<image1_data.w, image1_data.h>> = <<MaxSide, win_size>>
    /\ <<image2_data.w, image2_data.h>> = <<MaxSide, win_size>>
    /\ ~ResizingOccurred
    /\ result.dimensions = ToString(MaxSide) \o "x" \o ToString(win_size)
    /\ result.processed

\* C24: the three analyzers leave the reconciled pair as it was and share nothing,
\* so whatever the order in which a call's analyzers run, and whatever another call
\* on the same instance does meanwhile, each analyzer returns what it returns in
\* the order of compare_images and each call's result is that of the sequential
\* run on its own arguments.
C24_OrderIndependent ==
    \A i \in Comparisons :
        LET c == comparisons[i]
            pair == ReconciledPair(c.image1_data, c.image2_data, c.ignore_regions)
        IN  c.state # "idle" =>
               /\ <<c.img1, c.img2>> = pair
               /\ "pixel" \notin c.pending => c.diff_result = c.sequential.metrics
               /\ "perceptual" \notin c.pending => c.perceptual_result = c.sequential.perceptual
               /\ "regions" \notin c.pending
                     => c.difference_regions = c.sequential.difference_analysis
               /\ c.state = "done" => c.result = c.sequential

\* two calls with different arguments under way at once: in the first the region
\* extractor and the perceptual analyzer have run before the pixel analyzer, the
\* second has finished after the first started
C24_Witness ==
    /\ comparisons[1].state = "running"
    /\ comparisons[1].pending = {"pixel"}
    /\ comparisons[1].difference_regions.has_differences
    /\ comparisons[2].state = "done"
    /\ comparisons[2].ignore_regions # << >>
    /\ comparisons[2].sensitivity # comparisons[1].sensitivity
    /\ comparisons[2].result.metrics.changed_pixels > 0

\* C25: for a fixed pair of equal-size images, a call of calculate_pixel_differences
\* with a higher sensitivity never returns a lower changed_pixels or a lower
\* difference_percentage than a call with a lower one.
C25_SensitivityMonotone ==
    (Len(sensitivityCalls) = 2 /\ sensitivityCalls[1].sensitivity <= sensitivityCalls[2].sensitivity) =>
        /\ ~sensitivityCalls[1].out.raised /\ ~sensitivityCalls[2].out.raised
        /\ sensitivityCalls[1].out.changed_pixels <= sensitivityCalls[2].out.changed_pixels
        /\ sensitivityCalls[1].out.difference_percentage
              <= sensitivityCalls[2].out.difference_percentage
        /\ sensitivityCalls[1].out.binary_mask \subseteq sensitivityCalls[2].out.binary_mask

\* the ramp compared with black at two sensitivities: the higher one counts more
\* pixels than the lower one, which counts some, and neither counts all
C25_Witness ==
    /\ Len(sensitivityCalls) = 2
    /\ sensitivityCalls[1].sensitivity < sensitivityCalls[2].sensitivity
    /\ 0 < sensitivityCalls[1].out.changed_pixels
    /\ sensitivityCalls[1].out.changed_pixels < sensitivityCalls[2].out.changed_pixels
    /\ sensitivityCalls[2].out.changed_pixels < sensitivityCalls[2].out.total_pixels

\* C26: apply_ignore_mask with one rectangle region {x, y, width, height} blackens
\* exactly the pixels of columns x .. x + width - 1 and rows y .. y + height - 1
\* that lie inside the image and leaves every other pixel as it was; a rectangle of
\* zero width or height, one outside the image and one with a negative origin
\* change nothing outside the caller's rectangle.
C26_RectangleExact ==
    (/\ maskCall.called
     /\ Len(maskCall.ignore_regions) = 1
     /\ maskCall.ignore_regions[1].type = "rectangle"
     /\ maskCall.ignore_regions[1].ok) =>
        LET region == maskCall.ignore_regions[1]
            inside(p) == /\ region.x <= p[2] /\ p[2] <= region.x + region.width - 1
                         /\ region.y <= p[1] /\ p[1] <= region.y + region.height - 1
        IN  \A p \in Pos(maskCall.image.h, maskCall.image.w) :
               maskCall.out.px[p] = IF inside(p) THEN Black ELSE maskCall.image.px[p]

\* C27: the conversion maps the sensitivities 1 .. 100 onto the thresholds 254 .. 1:
\* sensitivity 1 gives the threshold 254 and sensitivity 100 gives the threshold 1,
\* in calculate_pixel_differences and in _extract_changed_objects alike.
C27_EndPoints ==
    \A i \in 1 .. Len(thresholdCalls) :
        LET call == thresholdCalls[i]
        IN  /\ call.sensitivity = 1 => call.pixel = 254 /\ call.objects = 254
            /\ call.sensitivity = 100 => call.pixel = 1 /\ call.objects = 1
            /\ (1 <= call.sensitivity /\ call.sensitivity <= 100)
                  => /\ 1 <= call.pixel /\ call.pixel <= 254
                     /\ 1 <= call.objects /\ call.objects <= 254

\* C28: compare_images always fuses the score with the four-term weights (0.4
\* pixel, 0.25 SSIM, 0.25 perceptual, 0.1 MSE), because the perceptual result it
\* passes is always a non-empty dict; after a failure of the perceptual analysis
\* overall_perceptual = 0.0 contributes the full 25 points, so the
\* difference_score of two identical images is then 25 instead of 0.
C28_FourTermFusion ==
    (pc = "done" /\ faults \cap ScoreFaults = {}) =>
        /\ result.difference_score =
               Min(Max(result.metrics.difference_percentage * 40
                       + (1000 - result.metrics.ssim) * 100 * 25
                       + (1000 - result.perceptual.overall_perceptual) * 100 * 25
                       + Min(result.metrics.mse, 100000) * 10, 0), 10000000)
        /\ faults \cap PerceptualBodyFaults # {} =>
               /\ result.perceptual.overall_perceptual = 0
               /\ result.difference_score >= 2500000
               /\ image1_data = image2_data => result.difference_score = 2500000

\* a finished comparison of an image with itself during which rgb2gray raised
C28_Witness ==
    /\ pc = "done"
    /\ faults = {"rgb2gray"}
    /\ image1_data = Solid(Red, MaxSide, MaxSide)
    /\ image2_data = image1_data
    /\ result.metrics.difference_percentage = 0
    /\ result.metrics.ssim = 1000
    /\ result.difference_score = 2500000

\* the regions _analyze_change_types looks at: the first five of the list, which
\* _find_difference_contours has sorted by area, largest first
Classified(call) == SubSeq(call.regions, 1, Min(Len(call.regions), 5))

\* the sum of the three channel sums of a region's crop: its mean brightness times
\* three times its number of pixels
BrightnessSum(img, region) ==
    CropSum(img, region.bbox, 1) + CropSum(img, region.bbox, 2) + CropSum(img, region.bbox, 3)

\* the classified regions whose mean brightness rose (fell) by more than 30
Brightened(call) ==
    {k \in 1 .. Len(Classified(call)) :
        LET r == Classified(call)[k]
        IN  BrightnessSum(call.img2, r) - BrightnessSum(call.img1, r) > 90 * r.bbox[3] * r.bbox[4]}

Darkened(call) ==
    {k \in 1 .. Len(Classified(call)) :
        LET r == Classified(call)[k]
        IN  BrightnessSum(call.img1, r) - BrightnessSum(call.img2, r) > 90 * r.bbox[3] * r.bbox[4]}

\* C29: in every change_analysis new_objects + removed_objects <= color_changes
\* <= min(5, number of regions) and moved_objects = size_changes = 0: only the 5
\* largest regions are classified, a region is counted as new or removed (never
\* both) only if its mean brightness differs by more than 30, and every such
\* region also has a mean-colour distance above 50.
C29_ChangeCounts ==
    changeCall.called =>
        LET out == changeCall.out
        IN  /\ out.new_objects + out.removed_objects <= out.color_changes
            /\ out.color_changes <= Min(5, Len(changeCall.regions))
            /\ out.moved_objects = 0
            /\ out.size_changes = 0
            /\ out.new_objects = Cardinality(Brightened(changeCall))
            /\ out.removed_objects = Cardinality(Darkened(changeCall))
            /\ Brightened(changeCall) \cap Darkened(changeCall) = {}

\* a call with more than five regions, the sixth of which brightened, in which one
\* classified region is new, one is removed and others changed colour only
C29_Witness ==
    /\ changeCall.called
    /\ Len(changeCall.regions) > 5
    /\ changeCall.out.new_objects >= 1
    /\ changeCall.out.removed_objects >= 1
    /\ changeCall.out.color_changes > changeCall.out.new_objects + changeCall.out.removed_objects
    /\ changeCall.out.color_changes < 5
    /\ LET r == changeCall.regions[6]
       IN  BrightnessSum(changeCall.img2, r) - BrightnessSum(changeCall.img1, r)
               > 90 * r.bbox[3] * r.bbox[4]

\* C30: every session opened through get_session is committed exactly when the
\* enclosed operation finishes without an exception, is rolled back, with the
\* exception raised again to the caller, when the operation or the commit raises,
\* and is closed in both cases; hence store_comparison_result either persists the
\* row and returns its id or persists nothing and raises, and
\* delete_comparison_result returns False and leaves the stored rows unchanged
\* when the id does not exist.
C30_SessionDiscipline ==
    \A s \in Sessions :
        LET x == sessions[s]
            left == x.pc \in {"close", "done"}
        IN  /\ x.commit_called <=>
                   (x.pc \in {"except", "close", "done"}
                    /\ x.first_raised \notin {"execute", "delete", "flush"})
            /\ x.committed <=> (left /\ x.first_raised = "")
            /\ x.rollback_called <=> (left /\ x.first_raised # "")
            /\ x.closed <=> x.pc = "done"
            /\ x.pc \in {"body", "commit", "except"} => x.inserts \cap table.rows = {}
            /\ x.pc = "done" =>
                   /\ x.first_raised # "" =>
                          /\ x.raised # ""
                          /\ "rollback" \notin x.faults => x.raised = x.first_raised
                          /\ x.value = "none"
                          /\ x.written = {} /\ x.erased = {}
                   /\ x.op = "store" =>
                          \/ /\ x.raised = "" /\ x.value = ToString(x.id) /\ x.written = {x.id}
                          \/ /\ x.raised # "" /\ x.value = "none" /\ x.written = {}
                             /\ x.id \notin table.rows
                   /\ (x.op = "delete" /\ ~x.found) =>
                          /\ x.written = {} /\ x.erased = {}
                          /\ x.raised = "" => x.value = "False"

\* one caller's store has failed at commit, was rolled back and closed, and left
\* no row, while another caller's delete of an id that is not stored returned
\* False beside a stored row
C30_Witness ==
    /\ sessions[1].pc = "done"
    /\ sessions[1].op = "store"
    /\ sessions[1].first_raised = "commit"
    /\ sessions[1].rollback_called
    /\ sessions[1].closed
    /\ sessions[1].id > 0
    /\ sessions[2].pc = "done"
    /\ sessions[2].op = "delete"
    /\ ~sessions[2].found
    /\ sessions[2].value = "False"
    /\ table.rows # {}

====
